---- MODULE Spec2Model ----
(***************************************************************************)
(* Markdown AST -> Notion blocks conversion of internal/jalapeno           *)
(* (ParseBlocks, ToBlocks, ExtractRichTexts, the builders and              *)
(* PrepareNotionPageProperties).                                           *)
(*                                                                         *)
(* A source node is a record with a kind, its ordered children (kids) and  *)
(* the kind's literal attributes.  Literal text is a sequence of           *)
(* one-character strings, so that trimming and lower-casing are computed.  *)
(* A Go panic is a result record whose err field is not "".                *)
(***************************************************************************)
EXTENDS Integers, Sequences, FiniteSets, TLC

VARIABLES
    tree,      \* children of the Document node returned by the markdown parser
    pc,        \* "parsed" -> "built" | "panicked" -> "titled"
    blocks,    \* result of ParseBlocks
    err,       \* panic message of ParseBlocks, "" when none
    input,     \* the block list PrepareNotionPageProperties was called with
    outBlocks, \* blocks returned by PrepareNotionPageProperties
    title,     \* title returned by PrepareNotionPageProperties
    debugSource, \* TRUE when the package variable DebugSource is not empty
    rtBuilders, \* the rich-text builders created so far, in creation order
    results,   \* one record per Build call on a rich-text builder, in call order
    schedule,  \* the calls the running conversion has still to make, next first
    visited    \* the calls of the conversion made so far, in call order

vars == <<tree, pc, blocks, err, input, outBlocks, title,
          debugSource, rtBuilders, results, schedule, visited>>

-----------------------------------------------------------------------------
(* Results of calls that may panic *)

Ok(v) == [err |-> "", val |-> v]
Panic(e) == [err |-> e, val |-> <<>>]

\* two calls made one after the other: the first panic ends both, else the
\* value of the second is appended to the value of the first
CatOk(h, t) ==
    IF h.err # "" THEN h
    ELSE IF t.err # "" THEN t
    ELSE Ok(h.val \o t.val)

\* the same for a loop that appends one value per pass
ConsOk(h, t) ==
    IF h.err # "" THEN h
    ELSE IF t.err # "" THEN t
    ELSE Ok(<<h.val>> \o t.val)

ErrNilDeref == "invalid memory address or nil pointer dereference"
ErrEmptyNode == "Empty node on top-level ToBlocks call"
ErrUnhandled == "unhandled node type"

-----------------------------------------------------------------------------
(* Strings as sequences of characters *)

IsSpace(c) == c \in {" ", "\n", "\t"}

RECURSIVE TrimLeft(_)
TrimLeft(s) ==
    IF s # <<>> /\ IsSpace(Head(s)) THEN TrimLeft(Tail(s)) ELSE s

RECURSIVE TrimRight(_)
TrimRight(s) ==
    IF s # <<>> /\ IsSpace(s[Len(s)]) THEN TrimRight(SubSeq(s, 1, Len(s) - 1)) ELSE s

TrimSpace(s) == TrimRight(TrimLeft(s))

UpperCase ==
    <<"A", "B", "C", "D", "E", "F", "G", "H", "I", "J", "K", "L", "M",
      "N", "O", "P", "Q", "R", "S", "T", "U", "V", "W", "X", "Y", "Z">>
LowerCase ==
    <<"a", "b", "c", "d", "e", "f", "g", "h", "i", "j", "k", "l", "m",
      "n", "o", "p", "q", "r", "s", "t", "u", "v", "w", "x", "y", "z">>

LowerChar(c) ==
    IF \E i \in 1..Len(UpperCase) : UpperCase[i] = c
    THEN LowerCase[CHOOSE i \in 1..Len(UpperCase) : UpperCase[i] = c]
    ELSE c

ToLower(s) == [i \in 1..Len(s) |-> LowerChar(s[i])]

-----------------------------------------------------------------------------
(* Source nodes *)

ChildCount(node) == Len(node.kids)

Text(t) == [kind |-> "Text", kids |-> <<>>, text |-> t]
RawHTML(t) == [kind |-> "RawHTML", kids |-> <<>>, text |-> t]
HTMLBlock(t) == [kind |-> "HTMLBlock", kids |-> <<>>, text |-> t]
CodeBlock(t) == [kind |-> "CodeBlock", kids |-> <<>>, text |-> t]
FencedCodeBlock(lang, t) ==
    [kind |-> "FencedCodeBlock", kids |-> <<>>, text |-> t, language |-> lang]
AutoLink(label, url) ==
    [kind |-> "AutoLink", kids |-> <<>>, text |-> label, dest |-> url]
TaskCheckBox(checked) ==
    [kind |-> "TaskCheckBox", kids |-> <<>>, checked |-> checked]
ThematicBreak == [kind |-> "ThematicBreak", kids |-> <<>>]
Emphasis(level, kids) == [kind |-> "Emphasis", kids |-> kids, level |-> level]
Strikethrough(kids) == [kind |-> "Strikethrough", kids |-> kids]
CodeSpan(kids) == [kind |-> "CodeSpan", kids |-> kids]
Link(url, kids) == [kind |-> "Link", kids |-> kids, dest |-> url]
Image(url, kids) == [kind |-> "Image", kids |-> kids, dest |-> url]
Heading(level, kids) ==
    [kind |-> "Heading", kids |-> kids, level |-> level, text |-> <<>>]
Paragraph(kids) == [kind |-> "Paragraph", kids |-> kids]
TextBlock(kids) == [kind |-> "TextBlock", kids |-> kids]
Blockquote(kids) == [kind |-> "Blockquote", kids |-> kids]
ListItem(kids) == [kind |-> "ListItem", kids |-> kids]
List(marker, kids) == [kind |-> "List", kids |-> kids, marker |-> marker]
TableCell(kids) == [kind |-> "TableCell", kids |-> kids]
TableHeader(kids) == [kind |-> "TableHeader", kids |-> kids]
TableRow(kids) == [kind |-> "TableRow", kids |-> kids]
Table(kids) == [kind |-> "Table", kids |-> kids]

-----------------------------------------------------------------------------
(* Rich texts and their builders (builder_rich_text.go) *)

NewTextRichText(content) ==
    [content |-> content, annotations |-> {}, link |-> ""]

NewLinkRichText(label, url) ==
    [content |-> label, annotations |-> {}, link |-> url]

NewNtRichTextBuilder(node) ==
    [nil |-> FALSE, node |-> node, decorators |-> <<>>]

NilRichTextBuilder ==
    [nil |-> TRUE, node |-> ThematicBreak, decorators |-> <<>>]

boldDecorator == [d |-> "bold", url |-> ""]
italicDecorator == [d |-> "italic", url |-> ""]
strikethroughDecorator == [d |-> "strikethrough", url |-> ""]
codeDecorator == [d |-> "code", url |-> ""]
linkDecorator(urlDestination) == [d |-> "link", url |-> urlDestination]

\* mutant: MakeLink keeps a link the run already has
ApplyDecoratorKeepLink(d, t) ==
    IF d.d = "link"
    THEN (IF t.link = "" THEN [t EXCEPT !.link = d.url] ELSE t)
    ELSE [t EXCEPT !.annotations = @ \cup {d.d}]

ApplyDecorator(d, t) ==
    IF d.d = "link"
    THEN [t EXCEPT !.link = d.url]
    ELSE [t EXCEPT !.annotations = @ \cup {d.d}]

\* b.DecorateWith(d): the receiver is dereferenced, so a nil builder panics
RichTextDecorateWith(b, d) ==
    IF b.nil THEN Panic(ErrNilDeref)
    ELSE Ok([b EXCEPT !.decorators = Append(@, d)])

html2notion(contentHTML) ==
    LET sane == ToLower(TrimSpace(contentHTML))
    IN IF sane = <<"<", "b", "r", ">">> THEN <<"\n">> ELSE sane

contentFromLines(v) == TrimSpace(v.text)

contentFromSegments(v) == v.text

\* the closure ToRichText captures for a node, run against the source
RichTextConstruct(v) ==
    CASE v.kind = "Heading" -> NewTextRichText(contentFromLines(v))
      [] v.kind = "Text" -> NewTextRichText(v.text)
      [] v.kind \in {"FencedCodeBlock", "CodeBlock"} ->
            NewTextRichText(contentFromLines(v))
      [] v.kind = "AutoLink" -> NewLinkRichText(v.text, v.dest)
      [] v.kind = "RawHTML" -> NewTextRichText(html2notion(contentFromSegments(v)))
      [] v.kind = "HTMLBlock" -> NewTextRichText(html2notion(contentFromLines(v)))

RECURSIVE ApplyDecorators(_, _)
\* mutant: the decorators are applied newest first
ApplyDecoratorsNewestFirst(ds, t) ==
    IF ds = <<>> THEN t
    ELSE ApplyDecorator(Head(ds), ApplyDecorators(Tail(ds), t))

ApplyDecorators(ds, t) ==
    IF ds = <<>> THEN t
    ELSE ApplyDecorators(Tail(ds), ApplyDecorator(Head(ds), t))

\* (b *NtRichTextBuilder) Build
RichTextBuild(b) ==
    IF b.nil THEN Panic(ErrNilDeref)
    ELSE Ok(ApplyDecorators(b.decorators, RichTextConstruct(b.node)))

\* (builders NtRichTextBuilders) Build
RECURSIVE RichTextsBuild(_)
RichTextsBuild(builders) ==
    IF builders = <<>> THEN Ok(<<>>)
    ELSE ConsOk(RichTextBuild(Head(builders)), RichTextsBuild(Tail(builders)))

-----------------------------------------------------------------------------
(* Classifier and rich-text extraction (jalapeno.go) *)

\* mutant: a Heading counts as inline-convertible
IsConvertableToRichTextWithHeading(node) ==
    CASE node.kind \in {"Text", "CodeBlock", "FencedCodeBlock", "ListItem",
                        "AutoLink", "RawHTML", "HTMLBlock", "Paragraph",
                        "Emphasis", "Strikethrough", "CodeSpan", "Heading"} -> TRUE
      [] node.kind = "Link" ->
            ~(ChildCount(node) > 0 /\ node.kids[1].kind = "Image")
      [] node.kind = "TextBlock" ->
            ~(ChildCount(node) > 0 /\ node.kids[1].kind = "TaskCheckBox")
      [] OTHER -> FALSE

IsConvertableToRichText(node) ==
    CASE node.kind \in {"Text", "CodeBlock", "FencedCodeBlock", "ListItem",
                        "AutoLink", "RawHTML", "HTMLBlock", "Paragraph",
                        "Emphasis", "Strikethrough", "CodeSpan"} -> TRUE
      [] node.kind = "Link" ->
            ~(ChildCount(node) > 0 /\ node.kids[1].kind = "Image")
      [] node.kind = "TextBlock" ->
            ~(ChildCount(node) > 0 /\ node.kids[1].kind = "TaskCheckBox")
      [] OTHER -> FALSE

ToRichText(node) ==
    IF node.kind \in {"Heading", "Text", "FencedCodeBlock", "CodeBlock",
                      "AutoLink", "RawHTML", "HTMLBlock"}
    THEN NewNtRichTextBuilder(node)
    ELSE NilRichTextBuilder

RECURSIVE DecorateAll(_, _)
\* the loop rt.DecorateWith(d) over richTexts
DecorateAll(richTexts, d) ==
    IF richTexts = <<>> THEN Ok(<<>>)
    ELSE ConsOk(RichTextDecorateWith(Head(richTexts), d),
                DecorateAll(Tail(richTexts), d))

\* mutant: every Emphasis decorates with italic, whatever its level
decorateRichTextsEmphasisItalic(parent, richTexts) ==
    CASE parent.kind = "Strikethrough" -> DecorateAll(richTexts, strikethroughDecorator)
      [] parent.kind = "Emphasis" -> DecorateAll(richTexts, italicDecorator)
      [] parent.kind = "CodeSpan" -> DecorateAll(richTexts, codeDecorator)
      [] parent.kind = "Link" -> DecorateAll(richTexts, linkDecorator(parent.dest))
      [] OTHER -> Ok(richTexts)

decorateRichTexts(parent, richTexts) ==
    CASE parent.kind = "Strikethrough" -> DecorateAll(richTexts, strikethroughDecorator)
      [] parent.kind = "Emphasis" ->
            DecorateAll(richTexts,
                        IF parent.level = 1 THEN italicDecorator ELSE boldDecorator)
      [] parent.kind = "CodeSpan" -> DecorateAll(richTexts, codeDecorator)
      [] parent.kind = "Link" -> DecorateAll(richTexts, linkDecorator(parent.dest))
      [] OTHER -> Ok(richTexts)

\* decorateRichTexts(node, ...) on what ExtractRichTexts of a child returned
DecorateChild(node, sub) ==
    IF sub.err # "" THEN sub ELSE decorateRichTexts(node, sub.val)

RECURSIVE ExtractRichTexts(_)
RECURSIVE ExtractChildren(_, _)

\* mutant: the runs of a later child are put before those of an earlier one
ExtractChildrenPrepend(node, i) ==
    IF i > ChildCount(node) THEN Ok(<<>>)
    ELSE CatOk(ExtractChildren(node, i + 1),
               DecorateChild(node, ExtractRichTexts(node.kids[i])))

\* the loop of ExtractRichTexts from child i on
ExtractChildren(node, i) ==
    IF i > ChildCount(node) THEN Ok(<<>>)
    ELSE CatOk(DecorateChild(node, ExtractRichTexts(node.kids[i])),
               ExtractChildren(node, i + 1))

ExtractRichTexts(node) ==
    IF ChildCount(node) = 0 THEN Ok(<<ToRichText(node)>>)
    ELSE ExtractChildren(node, 1)

-----------------------------------------------------------------------------
(* Blocks and their builders (builder_block.go) *)

\* a Go slice of blocks: nil (field absent) or a list, possibly empty
NilBlocks == [nil |-> TRUE, items |-> <<>>]
Blocks(items) == [nil |-> FALSE, items |-> items]

NilBlockBuilder == [nil |-> TRUE, kind |-> "nil"]

\* mutant: levels 4 to 6 get heading kinds of their own
NewHeadingBlockUnclamped(richText, level) ==
    [type |-> CASE level = 1 -> "heading_1"
                [] level = 2 -> "heading_2"
                [] level = 3 -> "heading_3"
                [] level = 4 -> "heading_4"
                [] level = 5 -> "heading_5"
                [] OTHER -> "heading_6",
     richText |-> richText]

NewHeadingBlock(richText, level) ==
    [type |-> CASE level = 1 -> "heading_1"
                [] level = 2 -> "heading_2"
                [] OTHER -> "heading_3",
     richText |-> richText]

sanitizeBlockLanguage(language) ==
    IF language = "" THEN "plain text" ELSE language

\* tokens of a literal that markdownLintRegex matches as a whole
LintComments == {"<!-- markdownlint-disable -->", "<!-- MARKDOWNLINT-ENABLE -->"}

sanitizeMarkdownLintComments(content) ==
    TrimSpace(SelectSeq(content, LAMBDA c : c \notin LintComments))

RECURSIVE SaneContentKeepEmpty(_)
\* mutant: a run whose cleaned content is empty is kept
SaneContentKeepEmpty(rts) ==
    IF rts = <<>> THEN <<>>
    ELSE <<[Head(rts) EXCEPT !.content = sanitizeMarkdownLintComments(@)]>>
         \o SaneContentKeepEmpty(Tail(rts))

RECURSIVE SaneContent(_)
\* the loop of handleHTMLBlock's closure over the built rich texts
SaneContent(rts) ==
    IF rts = <<>> THEN <<>>
    ELSE LET cleaned == sanitizeMarkdownLintComments(Head(rts).content)
         IN IF cleaned = <<>> THEN SaneContent(Tail(rts))
            ELSE <<[Head(rts) EXCEPT !.content = cleaned]>> \o SaneContent(Tail(rts))

RECURSIVE BlockBuild(_)
RECURSIVE BlocksBuild(_)
RECURSIVE CellsBuild(_)
RECURSIVE RowsBuild(_)

\* NtRichTextBuilders.Build on what an ExtractRichTexts call returned
BuildExtracted(richTexts) ==
    IF richTexts.err # "" THEN richTexts ELSE RichTextsBuild(richTexts.val)

\* a block literal of a closure: blk with the runs a Build call returned
WithRichText(blk, rts) ==
    IF rts.err # "" THEN rts ELSE Ok([blk EXCEPT !.richText = rts.val])

\* every cell of one row built: header.Build / cell.Build in handleTable's closure
CellsBuild(cells) ==
    IF cells = <<>> THEN Ok(<<>>)
    ELSE ConsOk(RichTextsBuild(Head(cells)), CellsBuild(Tail(cells)))

\* the nt.TableRow literal of handleTable's closure
TableRowBlock(cells) ==
    IF cells.err # "" THEN cells ELSE Ok([type |-> "table_row", cells |-> cells.val])

RowsBuild(rows) ==
    IF rows = <<>> THEN Ok(<<>>)
    ELSE ConsOk(TableRowBlock(CellsBuild(Head(rows))), RowsBuild(Tail(rows)))

\* mutant: the header row is appended after the body rows
TableBlockHeaderLast(b, hs, rs) ==
    IF hs.err # "" THEN hs
    ELSE IF rs.err # "" THEN rs
    ELSE Ok([type |-> "table",
             width |-> Len(b.headers),
             hasHeader |-> TRUE,
             children |->
                 Blocks(rs.val \o (IF Len(b.headers) > 0
                                   THEN <<[type |-> "table_row", cells |-> hs.val]>>
                                   ELSE <<>>))])

\* the nt.TableBlock literal of handleTable's closure
TableBlock(b, hs, rs) ==
    IF hs.err # "" THEN hs
    ELSE IF rs.err # "" THEN rs
    ELSE Ok([type |-> "table",
             width |-> Len(b.headers),
             hasHeader |-> TRUE,
             children |->
                 Blocks((IF Len(b.headers) > 0
                         THEN <<[type |-> "table_row", cells |-> hs.val]>>
                         ELSE <<>>) \o rs.val)])

\* the closure of handleTable
TableBuild(b) == TableBlock(b, CellsBuild(b.headers), RowsBuild(b.rows))

\* mutant: a block without child blocks gets no children list
NestedBlockNilWhenEmpty(type, rts, ch) ==
    IF rts.err # "" THEN rts
    ELSE IF ch.err # "" THEN ch
    ELSE Ok([type |-> type, richText |-> rts.val,
             children |-> IF ch.val = <<>> THEN NilBlocks ELSE Blocks(ch.val)])

\* a block literal with RichText and Children, both built by the closure
NestedBlock(type, rts, ch) ==
    IF rts.err # "" THEN rts
    ELSE IF ch.err # "" THEN ch
    ELSE Ok([type |-> type, richText |-> rts.val, children |-> Blocks(ch.val)])

\* the closures of ToBlocks and handleBlockquote that hold texts and blocks
NestedBuild(b, type) ==
    NestedBlock(type, RichTextsBuild(b.texts), BlocksBuild(b.children))

\* the nt.Image literal of the Image closure
ImageBlock(url, rts) ==
    IF rts.err # "" THEN rts
    ELSE Ok([type |-> "image", url |-> url, caption |-> rts.val])

\* the nt.Paragraph literal of handleHTMLBlock's closure
HTMLParagraphBlock(rts) ==
    IF rts.err # "" THEN rts
    ELSE Ok([type |-> "paragraph", richText |-> SaneContent(rts.val),
             children |-> NilBlocks])

\* (b *NtBlockBuilder) Build: the captured closure, by the place that made it
BlockBuild(b) ==
    IF b.nil THEN Panic(ErrNilDeref)
    ELSE CASE b.kind = "heading" ->
                WithRichText(NewHeadingBlock(<<>>, b.level), RichTextsBuild(b.texts))
           [] b.kind = "code" ->
                WithRichText([type |-> "code", richText |-> <<>>,
                              language |->
                                  IF b.node.kind = "FencedCodeBlock"
                                  THEN sanitizeBlockLanguage(b.node.language)
                                  ELSE ""],
                             BuildExtracted(ExtractRichTexts(b.node)))
           [] b.kind = "divider" -> Ok([type |-> "divider"])
           [] b.kind = "image" -> ImageBlock(b.url, RichTextsBuild(b.texts))
           [] b.kind = "table" -> TableBuild(b)
           [] b.kind = "html" -> HTMLParagraphBlock(RichTextsBuild(b.texts))
           [] b.kind = "paragraph" -> NestedBuild(b, "paragraph")
           [] b.kind = "blockquote" -> NestedBuild(b, "quote")
           [] b.kind = "textblock" ->
                WithRichText([type |-> "quote", richText |-> <<>>,
                              children |-> NilBlocks],
                             RichTextsBuild(b.texts))
           [] b.kind = "listitem" ->
                NestedBuild(b, IF b.bulletted THEN "bulleted_list_item"
                               ELSE "numbered_list_item")
           [] b.kind = "todo" ->
                WithRichText([type |-> "to_do", richText |-> <<>>,
                              checked |-> b.checked, children |-> NilBlocks],
                             RichTextsBuild(b.texts))

\* (builders NtBlockBuilders) Build
BlocksBuild(builders) ==
    IF builders = <<>> THEN Ok(<<>>)
    ELSE ConsOk(BlockBuild(Head(builders)), BlocksBuild(Tail(builders)))

-----------------------------------------------------------------------------
(* Block dispatcher (jalapeno.go) *)

RECURSIVE ToBlocks(_)
RECURSIVE ParagraphChildren(_, _, _, _)
RECURSIVE BlockquoteChildren(_, _, _, _)
RECURSIVE handleList(_)
RECURSIVE ListChildren(_, _, _)
RECURSIVE handleListItem(_, _)
RECURSIVE ListItemChildren(_, _, _, _, _)

\* a builder that captures the runs an ExtractRichTexts call returned
WithTexts(builder, richTexts) ==
    IF richTexts.err # "" THEN richTexts
    ELSE Ok(<<[builder EXCEPT !.texts = richTexts.val]>>)

handleHeading(node) ==
    WithTexts([nil |-> FALSE, kind |-> "heading", level |-> node.level,
               texts |-> <<>>],
              ExtractRichTexts(node))

RECURSIVE ExtractEach(_)
\* ExtractRichTexts of every cell of a table row, in order
ExtractEach(cells) ==
    IF cells = <<>> THEN Ok(<<>>)
    ELSE ConsOk(ExtractRichTexts(Head(cells)), ExtractEach(Tail(cells)))

RECURSIVE TableChildren(_, _, _, _)

\* one pass of handleTable's loop over child i, cells extracted from the row
TableChild(table, i, headers, rows, cells) ==
    CASE table.kids[i].kind = "TableHeader" ->
            IF cells.err # "" THEN cells
            ELSE TableChildren(table, i + 1, headers \o cells.val, rows)
      [] table.kids[i].kind = "TableRow" ->
            IF cells.err # "" THEN cells
            ELSE TableChildren(table, i + 1, headers, Append(rows, cells.val))
      [] OTHER -> TableChildren(table, i + 1, headers, rows)

\* the loop of handleTable from child i on
TableChildren(table, i, headers, rows) ==
    IF i > ChildCount(table)
    THEN Ok(<<[nil |-> FALSE, kind |-> "table", headers |-> headers, rows |-> rows]>>)
    ELSE TableChild(table, i, headers, rows, ExtractEach(table.kids[i].kids))

handleTable(node) == TableChildren(node, 1, <<>>, <<>>)

handleHTMLBlock(node) ==
    WithTexts([nil |-> FALSE, kind |-> "html", texts |-> <<>>],
              ExtractRichTexts(node))

\* the rest of the Paragraph loop once child i gave richTexts or blks
ParagraphChild(node, i, innerTexts, innerBlocks, richTexts, blks) ==
    IF richTexts.err # "" THEN richTexts
    ELSE IF blks.err # "" THEN blks
    ELSE ParagraphChildren(node, i + 1, innerTexts \o richTexts.val,
                           innerBlocks \o blks.val)

\* mutant: an inline-convertible child is flattened also after a block child
ParagraphChildrenNoLatch(node, i, innerTexts, innerBlocks) ==
    IF i > ChildCount(node)
    THEN Ok(<<[nil |-> FALSE, kind |-> "paragraph",
               texts |-> innerTexts, children |-> innerBlocks]>>)
    ELSE IF IsConvertableToRichText(node.kids[i])
    THEN ParagraphChild(node, i, innerTexts, innerBlocks,
                        ExtractRichTexts(node.kids[i]), Ok(<<>>))
    ELSE ParagraphChild(node, i, innerTexts, innerBlocks,
                        Ok(<<>>), ToBlocks(node.kids[i]))

\* the loop of the Paragraph case of ToBlocks from child i on
ParagraphChildren(node, i, innerTexts, innerBlocks) ==
    IF i > ChildCount(node)
    THEN Ok(<<[nil |-> FALSE, kind |-> "paragraph",
               texts |-> innerTexts, children |-> innerBlocks]>>)
    ELSE IF IsConvertableToRichText(node.kids[i]) /\ Len(innerBlocks) = 0
    THEN ParagraphChild(node, i, innerTexts, innerBlocks,
                        ExtractRichTexts(node.kids[i]), Ok(<<>>))
    ELSE ParagraphChild(node, i, innerTexts, innerBlocks,
                        Ok(<<>>), ToBlocks(node.kids[i]))

\* the rest of handleBlockquote's loop once child i gave richTexts or blks
BlockquoteChild(node, i, innerTexts, innerBlocks, richTexts, blks) ==
    IF richTexts.err # "" THEN richTexts
    ELSE IF blks.err # "" THEN blks
    ELSE BlockquoteChildren(node, i + 1, innerTexts \o richTexts.val,
                            innerBlocks \o blks.val)

\* mutant: an inline-convertible child is flattened also after a block child
BlockquoteChildrenNoLatch(node, i, innerTexts, innerBlocks) ==
    IF i > ChildCount(node)
    THEN Ok(<<[nil |-> FALSE, kind |-> "blockquote",
               texts |-> innerTexts, children |-> innerBlocks]>>)
    ELSE IF IsConvertableToRichText(node.kids[i])
    THEN BlockquoteChild(node, i, innerTexts, innerBlocks,
                         ExtractRichTexts(node.kids[i]), Ok(<<>>))
    ELSE BlockquoteChild(node, i, innerTexts, innerBlocks,
                         Ok(<<>>), ToBlocks(node.kids[i]))

\* the loop of handleBlockquote from child i on
BlockquoteChildren(node, i, innerTexts, innerBlocks) ==
    IF i > ChildCount(node)
    THEN Ok(<<[nil |-> FALSE, kind |-> "blockquote",
               texts |-> innerTexts, children |-> innerBlocks]>>)
    ELSE IF IsConvertableToRichText(node.kids[i]) /\ Len(innerBlocks) = 0
    THEN BlockquoteChild(node, i, innerTexts, innerBlocks,
                         ExtractRichTexts(node.kids[i]), Ok(<<>>))
    ELSE BlockquoteChild(node, i, innerTexts, innerBlocks,
                         Ok(<<>>), ToBlocks(node.kids[i]))

handleBlockquote(node) == BlockquoteChildren(node, 1, <<>>, <<>>)

RECURSIVE TaskLabels(_, _)

\* mutant: the labels end at the first sibling that is not inline-convertible
TaskLabelsStopAtBlock(node, i) ==
    IF i > ChildCount(node) THEN Ok(<<>>)
    ELSE IF IsConvertableToRichText(node.kids[i])
    THEN CatOk(ExtractRichTexts(node.kids[i]), TaskLabels(node, i + 1))
    ELSE Ok(<<>>)

\* the loop of handleTaskItem over the siblings from child i on
TaskLabels(node, i) ==
    IF i > ChildCount(node) THEN Ok(<<>>)
    ELSE IF IsConvertableToRichText(node.kids[i])
    THEN CatOk(ExtractRichTexts(node.kids[i]), TaskLabels(node, i + 1))
    ELSE TaskLabels(node, i + 1)

\* the builder of handleTaskItem: it captures the checkbox and the labels
ToDoBuilder(checkbox, labels) ==
    IF labels.err # "" THEN labels
    ELSE Ok([nil |-> FALSE, kind |-> "todo",
             checked |-> checkbox.checked, texts |-> labels.val])

handleTaskItem(node) ==
    IF ChildCount(node) = 0 THEN Ok(NilBlockBuilder)
    ELSE IF node.kids[1].kind # "TaskCheckBox" THEN Ok(NilBlockBuilder)
    ELSE ToDoBuilder(node.kids[1], TaskLabels(node, 2))

\* the rest of handleListItem's second loop once ToBlocks of child i returned
ListItemChild(node, bulletted, i, mainContent, children, blks) ==
    IF blks.err # "" THEN blks
    ELSE ListItemChildren(node, bulletted, i + 1, mainContent, children \o blks.val)

\* mutant: only a task TextBlock in first position ends the loop
ListItemChildrenTaskFirstOnly(node, bulletted, i, mainContent, children) ==
    IF i > ChildCount(node)
    THEN Ok([nil |-> FALSE, kind |-> "listitem", bulletted |-> bulletted,
             texts |-> mainContent, children |-> children])
    ELSE IF Len(mainContent) > 0 /\ i = 1
    THEN ListItemChildren(node, bulletted, i + 1, mainContent, children)
    ELSE IF node.kids[i].kind = "TextBlock"
    THEN IF i = 1 /\ ChildCount(node.kids[i]) > 0
            /\ node.kids[i].kids[1].kind = "TaskCheckBox"
         THEN handleTaskItem(node.kids[i])
         ELSE ListItemChildren(node, bulletted, i + 1, mainContent, children)
    ELSE ListItemChild(node, bulletted, i, mainContent, children,
                       ToBlocks(node.kids[i]))

\* the second loop of handleListItem from child i on
ListItemChildren(node, bulletted, i, mainContent, children) ==
    IF i > ChildCount(node)
    THEN Ok([nil |-> FALSE, kind |-> "listitem", bulletted |-> bulletted,
             texts |-> mainContent, children |-> children])
    ELSE IF Len(mainContent) > 0 /\ i = 1
    THEN ListItemChildren(node, bulletted, i + 1, mainContent, children)
    ELSE IF node.kids[i].kind = "TextBlock"
    THEN IF ChildCount(node.kids[i]) > 0 /\ node.kids[i].kids[1].kind = "TaskCheckBox"
         THEN handleTaskItem(node.kids[i])
         ELSE ListItemChildren(node, bulletted, i + 1, mainContent, children)
    ELSE ListItemChild(node, bulletted, i, mainContent, children,
                       ToBlocks(node.kids[i]))

\* handleListItem after its first loop, mainContent extracted
ListItemMain(node, bulletted, mainContent) ==
    IF mainContent.err # "" THEN mainContent
    ELSE ListItemChildren(node, bulletted, 1, mainContent.val, <<>>)

handleListItem(node, bulletted) ==
    ListItemMain(node, bulletted,
                 IF ChildCount(node) > 0 /\ IsConvertableToRichText(node.kids[1])
                 THEN ExtractRichTexts(node.kids[1])
                 ELSE Ok(<<>>))

\* the loop of handleList from child i on
ListChildren(list, bulletted, i) ==
    IF i > ChildCount(list) THEN Ok(<<>>)
    ELSE ConsOk(handleListItem(list.kids[i], bulletted),
                ListChildren(list, bulletted, i + 1))

\* mutant: only the marker '-' makes a list bulleted
handleListOnlyDash(node) ==
    ListChildren(node, node.marker = "-", 1)

handleList(node) ==
    ListChildren(node, node.marker \in {"-", "+", "*"}, 1)

\* mutant: a node of a kind without a case is left out silently
ToBlocksSkipUnhandled(node) ==
    CASE node.kind = "Heading" -> handleHeading(node)
      [] node.kind \in {"CodeBlock", "FencedCodeBlock"} ->
            Ok(<<[nil |-> FALSE, kind |-> "code", node |-> node]>>)
      [] node.kind = "ThematicBreak" -> Ok(<<[nil |-> FALSE, kind |-> "divider"]>>)
      [] node.kind = "Image" ->
            WithTexts([nil |-> FALSE, kind |-> "image", url |-> node.dest,
                       texts |-> <<>>],
                      IF ChildCount(node) > 0 THEN ExtractRichTexts(node.kids[1])
                      ELSE Ok(<<>>))
      [] node.kind = "Table" -> handleTable(node)
      [] node.kind = "HTMLBlock" -> handleHTMLBlock(node)
      [] OTHER ->
            IF ChildCount(node) = 0 THEN Panic(ErrEmptyNode)
            ELSE CASE node.kind = "Paragraph" -> ParagraphChildren(node, 1, <<>>, <<>>)
                   [] node.kind = "Blockquote" -> handleBlockquote(node)
                   [] node.kind = "List" -> handleList(node)
                   [] node.kind = "TextBlock" ->
                        WithTexts([nil |-> FALSE, kind |-> "textblock",
                                   texts |-> <<>>],
                                  ExtractRichTexts(node))
                   [] OTHER -> Ok(<<>>)

\* mutant: the child count is looked at only after the switch over nested kinds
ToBlocksDispatchFirst(node) ==
    CASE node.kind = "Heading" -> handleHeading(node)
      [] node.kind \in {"CodeBlock", "FencedCodeBlock"} ->
            Ok(<<[nil |-> FALSE, kind |-> "code", node |-> node]>>)
      [] node.kind = "ThematicBreak" -> Ok(<<[nil |-> FALSE, kind |-> "divider"]>>)
      [] node.kind = "Image" ->
            WithTexts([nil |-> FALSE, kind |-> "image", url |-> node.dest,
                       texts |-> <<>>],
                      IF ChildCount(node) > 0 THEN ExtractRichTexts(node.kids[1])
                      ELSE Ok(<<>>))
      [] node.kind = "Table" -> handleTable(node)
      [] node.kind = "HTMLBlock" -> handleHTMLBlock(node)
      [] node.kind = "Paragraph" -> ParagraphChildren(node, 1, <<>>, <<>>)
      [] node.kind = "Blockquote" -> handleBlockquote(node)
      [] node.kind = "List" -> handleList(node)
      [] node.kind = "TextBlock" ->
            WithTexts([nil |-> FALSE, kind |-> "textblock", texts |-> <<>>],
                      ExtractRichTexts(node))
      [] OTHER ->
            IF ChildCount(node) = 0 THEN Panic(ErrEmptyNode)
            ELSE Panic(ErrUnhandled)

ToBlocks(node) ==
    CASE node.kind = "Heading" -> handleHeading(node)
      [] node.kind \in {"CodeBlock", "FencedCodeBlock"} ->
            Ok(<<[nil |-> FALSE, kind |-> "code", node |-> node]>>)
      [] node.kind = "ThematicBreak" -> Ok(<<[nil |-> FALSE, kind |-> "divider"]>>)
      [] node.kind = "Image" ->
            WithTexts([nil |-> FALSE, kind |-> "image", url |-> node.dest,
                       texts |-> <<>>],
                      IF ChildCount(node) > 0 THEN ExtractRichTexts(node.kids[1])
                      ELSE Ok(<<>>))
      [] node.kind = "Table" -> handleTable(node)
      [] node.kind = "HTMLBlock" -> handleHTMLBlock(node)
      [] OTHER ->
            IF ChildCount(node) = 0 THEN Panic(ErrEmptyNode)
            ELSE CASE node.kind = "Paragraph" -> ParagraphChildren(node, 1, <<>>, <<>>)
                   [] node.kind = "Blockquote" -> handleBlockquote(node)
                   [] node.kind = "List" -> handleList(node)
                   [] node.kind = "TextBlock" ->
                        WithTexts([nil |-> FALSE, kind |-> "textblock",
                                   texts |-> <<>>],
                                  ExtractRichTexts(node))
                   [] OTHER -> Panic(ErrUnhandled)

-----------------------------------------------------------------------------
(* Entry points *)

RECURSIVE WalkTopLevel(_)
\* mdast.Walk over the Document: ToBlocks of each top-level node, children skipped
WalkTopLevel(nodes) ==
    IF nodes = <<>> THEN Ok(<<>>)
    ELSE CatOk(ToBlocks(Head(nodes)), WalkTopLevel(Tail(nodes)))

\* blockBuilders.Build() on what the walk collected
BuildWalked(blockBuilders) ==
    IF blockBuilders.err # "" THEN blockBuilders
    ELSE BlocksBuild(blockBuilders.val)

ParseBlocksResult(nodes) == BuildWalked(WalkTopLevel(nodes))

UnnamedDocument ==
    <<"U","n","n","a","m","e","d"," ","D","o","c","u","m","e","n","t">>

RECURSIVE FirstHeading1(_, _)
\* index of the first heading_1 block at or after i, 0 when there is none
FirstHeading1(blks, i) ==
    IF i > Len(blks) THEN 0
    ELSE IF blks[i].type = "heading_1" THEN i
    ELSE FirstHeading1(blks, i + 1)

\* mutant: every heading_1 block is removed, not only the first
PrepareNotionPagePropertiesAllHeadings(blks) ==
    LET i == FirstHeading1(blks, 1)
        pageTitle == IF i = 0 THEN <<>> ELSE blks[i].richText
    IN [blocks |-> SelectSeq(blks, LAMBDA b : b.type # "heading_1"),
        title |-> IF Len(pageTitle) = 0
                  THEN <<NewTextRichText(UnnamedDocument)>>
                  ELSE pageTitle]

\* mutant: the placeholder title is set only inside the len(blocks) > 0 guard
PrepareNotionPagePropertiesGuardedDefault(blks) ==
    LET i == FirstHeading1(blks, 1)
        pageTitle == IF i = 0 THEN <<>> ELSE blks[i].richText
        rest == IF i = 0 THEN blks
                ELSE SubSeq(blks, 1, i - 1) \o SubSeq(blks, i + 1, Len(blks))
    IN [blocks |-> rest,
        title |-> IF Len(blks) > 0 /\ Len(pageTitle) = 0
                  THEN <<NewTextRichText(UnnamedDocument)>>
                  ELSE pageTitle]

PrepareNotionPageProperties(blks) ==
    LET i == FirstHeading1(blks, 1)
        pageTitle == IF i = 0 THEN <<>> ELSE blks[i].richText
        rest == IF i = 0 THEN blks
                ELSE SubSeq(blks, 1, i - 1) \o SubSeq(blks, i + 1, Len(blks))
    IN [blocks |-> rest,
        title |-> IF Len(pageTitle) = 0
                  THEN <<NewTextRichText(UnnamedDocument)>>
                  ELSE pageTitle]

-----------------------------------------------------------------------------
(* Source trees the parser hands over, within bounds *)

MaxKids == 3    \* children of a generated paragraph or blockquote
MaxRest == 2    \* children of a generated list item after its first child
MaxItems == 2   \* items of a generated flat list
MaxRows == 2    \* rows of a generated table
MaxTop == 3     \* top-level nodes of a generated multi-block document
MaxInline == 2  \* children of a generated emphasis, strikethrough, code span or link

SeqsFromTo(S, lo, hi) == UNION {[1..k -> S] : k \in lo..hi}

tA == <<"a">>
tB == <<" ", "b">>
tBR == <<"<", "B", "R", ">">>

ParagraphKids ==
    {Text(tA), Text(tB), Emphasis(2, <<Text(tA)>>), RawHTML(tBR),
     Image("img", <<>>), Image("img", <<Text(tA)>>), Link("u1", <<>>),
     Link("u1", <<Image("img", <<>>)>>)}

SimpleList == List("-", <<ListItem(<<TextBlock(<<Text(tA)>>)>>)>>)

BlockquoteKids ==
    {Paragraph(<<Text(tA)>>), Paragraph(<<Text(tB), Image("img", <<>>)>>),
     Heading(1, <<Text(tA)>>), Heading(4, <<Text(tB)>>),
     SimpleList, ThematicBreak, FencedCodeBlock("", tB)}

ParagraphTrees == {Paragraph(k) : k \in SeqsFromTo(ParagraphKids, 1, MaxKids)}
BlockquoteTrees == {Blockquote(k) : k \in SeqsFromTo(BlockquoteKids, 1, MaxKids)}

Unchecked == TextBlock(<<TaskCheckBox(FALSE), Text(tA)>>)
Checked == TextBlock(<<TaskCheckBox(TRUE), Text(tA), Image("img", <<>>), Text(tB)>>)
TaskList == List("-", <<ListItem(<<Unchecked>>), ListItem(<<Checked>>)>>)

ItemFirst ==
    {TextBlock(<<Text(tA)>>), Paragraph(<<Text(tA), Text(tB)>>), Unchecked, Checked,
     Paragraph(<<TaskCheckBox(TRUE), Text(tA)>>), SimpleList}

ItemRest ==
    {SimpleList, TaskList, List(".", <<ListItem(<<Unchecked>>)>>),
     TextBlock(<<Text(tB)>>), Unchecked, FencedCodeBlock("go", tA)}

Items ==
    {ListItem(<<f>> \o r) : f \in ItemFirst, r \in SeqsFromTo(ItemRest, 0, MaxRest)}

FlatItems ==
    {ListItem(<<TextBlock(<<Text(tA)>>)>>), ListItem(<<TextBlock(<<Text(tB)>>)>>),
     ListItem(<<Unchecked>>), ListItem(<<Checked>>)}

Markers == {"-", "*", ".", ")"}

ListTrees ==
    {List(m, <<i>>) : m \in {"-", "."}, i \in Items}
    \cup {List(m, k) : m \in Markers, k \in SeqsFromTo(FlatItems, 1, MaxItems)}
    \cup {List("+", <<ListItem(<<TextBlock(<<Text(tA)>>), List(m, <<i>>)>>)>>) :
            m \in {"-", "."}, i \in Items}

Cell(t) == TableCell(<<Text(t)>>)

TableKids ==
    {TableHeader(<<Cell(tA), Cell(tB)>>), TableHeader(<<Cell(tA)>>),
     TableRow(<<Cell(tA)>>), TableRow(<<Cell(tB), Cell(tA), Cell(tA)>>),
     TableRow(<<Cell(tA), Cell(tB)>>)}

TableTrees == {Table(k) : k \in SeqsFromTo(TableKids, 1, MaxRows)}

TopLevel ==
    {Heading(1, <<Text(tA)>>), Heading(1, <<Text(tB), Text(tA)>>),
     Heading(2, <<Text(tA)>>), Paragraph(<<Text(tA)>>), ThematicBreak}

tDiv == <<"<", "D", "I", "V", ">">>
tLint == <<"<!-- markdownlint-disable -->">>

MiscTrees ==
    {Heading(l, <<Text(tA)>>) : l \in 1..6}
    \cup {HTMLBlock(tDiv), HTMLBlock(tLint), HTMLBlock(tBR \o <<"\n">>),
          CodeBlock(tB), FencedCodeBlock("", tA), FencedCodeBlock("go", tB),
          Blockquote(<<Heading(2, <<Text(tA)>>), HTMLBlock(tDiv)>>),
          HTMLBlock(<<" ">> \o tDiv \o <<"\n">>), HTMLBlock(<<"x">> \o tLint),
          Heading(3, <<Emphasis(2, <<Text(tA)>>), Text(tB)>>),
          Heading(5, <<Image("img", <<>>)>>),
          Heading(6, <<Image("img", <<Text(tA)>>)>>),
          Paragraph(<<Emphasis(2, <<Image("img", <<Text(tA)>>)>>)>>),
          Paragraph(<<Emphasis(1, <<Image("img", <<>>)>>)>>),
          Paragraph(<<Text(tA), Image("img", <<>>)>>),
          Blockquote(<<>>),
          Blockquote(<<Heading(2, <<Text(tA)>>),
                       Paragraph(<<Image("img", <<>>), Text(tA)>>)>>)}

InlineLeaves ==
    {Text(tA), Text(tB), AutoLink(tA, "u2"), RawHTML(tBR), Link("u1", <<>>)}

Wrap(k) ==
    {Emphasis(1, k), Emphasis(2, k), Emphasis(3, k), Strikethrough(k), CodeSpan(k),
     Link("u1", k), Link("u3", k)}

Wrapped1 == UNION {Wrap(k) : k \in SeqsFromTo(InlineLeaves, 1, MaxInline)}
Wrapped2 == UNION {Wrap(<<w>>) : w \in Wrapped1}

InlineTrees == {Paragraph(<<w>>) : w \in Wrapped1 \cup Wrapped2}

SingleTrees ==
    ParagraphTrees \cup BlockquoteTrees \cup ListTrees \cup TableTrees
    \cup MiscTrees \cup InlineTrees

Documents ==
    {d : d \in SeqsFromTo(TopLevel, 0, MaxTop)} \cup {<<n>> : n \in SingleTrees}

-----------------------------------------------------------------------------
(* The conversion as a state machine *)

Init ==
    /\ tree \in Documents
    /\ pc = "parsed"
    /\ blocks = <<>>
    /\ input = <<>>
    /\ err = ""
    /\ outBlocks = <<>>
    /\ title = <<>>
    /\ debugSource = FALSE
    /\ rtBuilders = <<>>
    /\ results = <<>>
    /\ schedule = <<>>
    /\ visited = <<>>

\* Parser.ParseBlocks: a panic below it is not recovered
ParseBlocks ==
    /\ pc = "parsed"
    /\ LET r == ParseBlocksResult(tree)
       IN /\ pc' = IF r.err # "" THEN "panicked" ELSE "built"
          /\ err' = r.err
          /\ blocks' = r.val
    /\ UNCHANGED <<tree, input, outBlocks, title>>
    /\ UNCHANGED <<debugSource, rtBuilders, results, schedule, visited>>

\* what the caller's slice shows after append(blocks[:i], blocks[i+1:]...)
\* has shifted the shared backing array
CallerView(blks, i) ==
    [k \in 1..Len(blks) |->
        IF i = 0 \/ k < i THEN blks[k]
        ELSE IF k < Len(blks) THEN blks[k + 1]
        ELSE blks[Len(blks)]]

\* a call of PrepareNotionPageProperties on the parsed blocks
CallPrepareNotionPageProperties ==
    /\ pc = "built"
    /\ LET r == PrepareNotionPageProperties(blocks)
       IN /\ outBlocks' = r.blocks
          /\ title' = r.title
    /\ input' = blocks
    /\ blocks' = CallerView(blocks, FirstHeading1(blocks, 1))
    /\ pc' = "titled"
    /\ UNCHANGED <<tree, err>>
    /\ UNCHANGED <<debugSource, rtBuilders, results, schedule, visited>>

Next == ParseBlocks \/ CallPrepareNotionPageProperties

Spec == Init /\ [][Next]_vars

-----------------------------------------------------------------------------
(* The calls made on rich-text builders while a heading is flattened, in    *)
(* the revision of jalapeno.go whose ToBlocks goes through flatten: the      *)
(* walk of flatten with its DebugRichTexts calls, then the Build of the      *)
(* heading's closure.  A builder is named by its position in creation order. *)
(* Without a debug source the calls are those of ExtractRichTexts and        *)
(* decorateRichTexts, which decorate by the same enclosing node.             *)

\* DebugRichTexts: without a debug source it returns at once, with one it
\* calls Build on every builder of rts in order
DebugRichTexts(rts, debug) ==
    IF debug THEN [i \in 1..Len(rts) |-> [op |-> "Build", b |-> rts[i], by |-> "debug"]]
    ELSE <<>>

\* the loop rt.DecorateWith(d) over the builders rts
DecorateLoop(rts, d) ==
    [i \in 1..Len(rts) |-> [op |-> "DecorateWith", b |-> rts[i], d |-> d]]

\* the switch of flatten over the kind of node, applied to deeperRichTexts
DecorateCalls(node, rts) ==
    CASE node.kind = "Strikethrough" -> DecorateLoop(rts, strikethroughDecorator)
      [] node.kind = "Emphasis" ->
            DecorateLoop(rts, IF node.level = 1 THEN italicDecorator ELSE boldDecorator)
      [] node.kind = "CodeSpan" -> DecorateLoop(rts, codeDecorator)
      [] node.kind = "Link" -> DecorateLoop(rts, linkDecorator(node.dest))
      [] OTHER -> <<>>

RECURSIVE flatten(_, _, _)
RECURSIVE FlattenChildren(_, _, _, _, _, _)

\* one pass of flatten's loop once flatten of child i returned deeper
FlattenChild(node, i, base, debug, rts, calls, deeper) ==
    FlattenChildren(node, i + 1, base, debug, rts \o deeper.rts,
                    calls \o deeper.calls
                          \o DebugRichTexts(deeper.rts, debug)
                          \o DecorateCalls(node, deeper.rts))

\* the loop of flatten from child i on; base builders exist before the call
FlattenChildren(node, i, base, debug, rts, calls) ==
    IF i > ChildCount(node) THEN [rts |-> rts, calls |-> calls]
    ELSE FlattenChild(node, i, base, debug, rts, calls,
                      flatten(node.kids[i], base + Len(rts), debug))

\* flatten: the builders it returns and the builder calls it makes, in order
\* (every revision of IsConvertableToRichText accepts the leaves of WalkTrees)
flatten(node, base, debug) ==
    IF ChildCount(node) = 0
    THEN IF IsConvertableToRichText(node)
         THEN [rts |-> <<base + 1>>,
               calls |-> <<[op |-> "ToRichText", b |-> base + 1, node |-> node]>>]
         ELSE [rts |-> <<>>, calls |-> <<>>]
    ELSE FlattenChildren(node, 1, base, debug, <<>>, <<>>)

\* richTexts.Build(source) of the heading's closure
FinalBuilds(rts) ==
    [i \in 1..Len(rts) |-> [op |-> "Build", b |-> rts[i], by |-> "closure"]]

\* the Heading case of ToBlocks and the Build of its builder, flattened given
HeadingCallsOf(flattened, debug) ==
    flattened.calls \o DebugRichTexts(flattened.rts, debug)
                    \o FinalBuilds(flattened.rts)

HeadingCalls(node, debug) == HeadingCallsOf(flatten(node, 0, debug), debug)

MappedLeaves == {Text(tA), Text(tB), AutoLink(tA, "u2"), RawHTML(tBR)}

WalkWrapped == UNION {Wrap(k) : k \in SeqsFromTo(MappedLeaves, 1, MaxInline)}

\* headings whose inline content has a rich-text mapping for every leaf
WalkTrees ==
    {Heading(2, <<w>>) : w \in WalkWrapped}
    \cup UNION {{Heading(1, <<v>>) : v \in Wrap(<<w>>)} : w \in WalkWrapped}
    \cup {Heading(3, <<Text(tA), w>>) : w \in WalkWrapped}

InitBuilders ==
    /\ tree \in {<<h>> : h \in WalkTrees}
    /\ pc = "idle"
    /\ blocks = <<>>
    /\ input = <<>>
    /\ err = ""
    /\ outBlocks = <<>>
    /\ title = <<>>
    /\ debugSource = FALSE
    /\ rtBuilders = <<>>
    /\ results = <<>>
    /\ schedule = <<>>
    /\ visited = <<>>

\* SetDebugSource(s) with a source that is not empty
SetDebugSource ==
    /\ pc = "idle"
    /\ ~debugSource
    /\ debugSource' = TRUE
    /\ UNCHANGED <<tree, pc, blocks, err, input, outBlocks, title,
                   rtBuilders, results, schedule, visited>>

\* ParseBlocks enters ToBlocks for the heading
StartWalk ==
    /\ pc = "idle"
    /\ pc' = "walking"
    /\ schedule' = HeadingCalls(tree[1], debugSource)
    /\ UNCHANGED <<tree, blocks, err, input, outBlocks, title,
                   debugSource, rtBuilders, results, visited>>

\* ToRichText(node): a new builder without decorators
CallToRichText ==
    /\ pc = "walking" /\ schedule # <<>>
    /\ Head(schedule).op = "ToRichText"
    /\ rtBuilders' = Append(rtBuilders, ToRichText(Head(schedule).node))
    /\ schedule' = Tail(schedule)
    /\ UNCHANGED <<tree, pc, blocks, err, input, outBlocks, title,
                   debugSource, results, visited>>

\* b.DecorateWith(d)
CallDecorateWith ==
    /\ pc = "walking" /\ schedule # <<>>
    /\ Head(schedule).op = "DecorateWith"
    /\ rtBuilders' = [rtBuilders EXCEPT ![Head(schedule).b] =
                        RichTextDecorateWith(@, Head(schedule).d).val]
    /\ schedule' = Tail(schedule)
    /\ UNCHANGED <<tree, pc, blocks, err, input, outBlocks, title,
                   debugSource, results, visited>>

\* b.Build(source): the builder is read, not written; the call is recorded
\* with the builder as it was before and as it is after
CallBuild ==
    /\ pc = "walking" /\ schedule # <<>>
    /\ Head(schedule).op = "Build"
    /\ rtBuilders' = rtBuilders
    /\ results' = Append(results,
                         [b |-> Head(schedule).b, by |-> Head(schedule).by,
                          before |-> rtBuilders[Head(schedule).b],
                          after |-> rtBuilders'[Head(schedule).b],
                          val |-> RichTextBuild(rtBuilders[Head(schedule).b]).val])
    /\ schedule' = Tail(schedule)
    /\ UNCHANGED <<tree, pc, blocks, err, input, outBlocks, title,
                   debugSource, visited>>

\* the runs the closure's Build calls returned, one per builder
ClosureRuns ==
    [i \in 1..Len(rtBuilders) |-> results[Len(results) - Len(rtBuilders) + i].val]

\* the heading's closure returns its block and ParseBlocks returns
ReturnHeading ==
    /\ pc = "walking" /\ schedule = <<>>
    /\ pc' = "flattened"
    /\ blocks' = <<NewHeadingBlock(ClosureRuns, tree[1].level)>>
    /\ UNCHANGED <<tree, err, input, outBlocks, title,
                   debugSource, rtBuilders, results, schedule, visited>>

NextBuilders ==
    \/ SetDebugSource
    \/ StartWalk
    \/ CallToRichText
    \/ CallDecorateWith
    \/ CallBuild
    \/ ReturnHeading

SpecBuilders == InitBuilders /\ [][NextBuilders]_vars

-----------------------------------------------------------------------------
(* Properties *)

RECURSIVE Descendants(_)
Descendants(n) == {n} \cup UNION {Descendants(n.kids[i]) : i \in 1..Len(n.kids)}

\* every node of the document, at any depth
Nodes == UNION {Descendants(tree[i]) : i \in 1..Len(tree)}

\* length of the maximal leading run of children IsConvertableToRichText accepts
LeadingInline(kids) ==
    CHOOSE k \in 0..Len(kids) :
        /\ \A i \in 1..k : IsConvertableToRichText(kids[i])
        /\ k = Len(kids) \/ ~IsConvertableToRichText(kids[k + 1])

RECURSIVE ConcatExtract(_)
\* in-order concatenation of ExtractRichTexts over nodes, or the first panic
ConcatExtract(nodes) ==
    IF nodes = <<>> THEN Ok(<<>>)
    ELSE LET h == ExtractRichTexts(Head(nodes))
             t == ConcatExtract(Tail(nodes))
         IN IF h.err # "" THEN h ELSE IF t.err # "" THEN t ELSE Ok(h.val \o t.val)

RECURSIVE ConcatToBlocks(_)
\* in-order concatenation of ToBlocks over nodes, or the first panic
ConcatToBlocks(nodes) ==
    IF nodes = <<>> THEN Ok(<<>>)
    ELSE LET h == ToBlocks(Head(nodes))
             t == ConcatToBlocks(Tail(nodes))
         IN IF h.err # "" THEN h ELSE IF t.err # "" THEN t ELSE Ok(h.val \o t.val)

SplitExpected(n) ==
    LET k == LeadingInline(n.kids)
        runs == ConcatExtract(SubSeq(n.kids, 1, k))
        children == ConcatToBlocks(SubSeq(n.kids, k + 1, Len(n.kids)))
    IN IF runs.err # "" THEN runs
       ELSE IF children.err # "" THEN children
       ELSE Ok(<<[nil |-> FALSE,
                  kind |-> IF n.kind = "Paragraph" THEN "paragraph" ELSE "blockquote",
                  texts |-> runs.val, children |-> children.val]>>)

SplitBuilt(n) ==
    LET k == LeadingInline(n.kids)
        runs == RichTextsBuild(ConcatExtract(SubSeq(n.kids, 1, k)).val)
        children == BlocksBuild(ConcatToBlocks(SubSeq(n.kids, k + 1, Len(n.kids))).val)
    IN [type |-> IF n.kind = "Paragraph" THEN "paragraph" ELSE "quote",
        richText |-> runs.val, children |-> Blocks(children.val)]

\* C1: a Paragraph or Blockquote with children converts to exactly one block
\* (Paragraph resp. Quote): its runs are the concatenated ExtractRichTexts of
\* the maximal leading children IsConvertableToRichText accepts, its children
\* the concatenated ToBlocks of every child from the first other one onward,
\* later inline-convertible children included; a panic of one of these calls
\* is the panic of the whole.
C1_SplitAtFirstBlock ==
    /\ \A n \in Nodes :
        n.kind \in {"Paragraph", "Blockquote"} /\ ChildCount(n) >= 1 =>
            /\ ToBlocks(n) = SplitExpected(n)
            /\ ToBlocks(n).err = "" =>
                 LET built == BlocksBuild(ToBlocks(n).val)
                 IN built.err = "" => built.val = <<SplitBuilt(n)>>
    /\ pc = "built" /\ Len(tree) = 1 /\ tree[1].kind \in {"Paragraph", "Blockquote"}
        => blocks = <<SplitBuilt(tree[1])>>

\* C1 witness: a converted blockquote whose paragraph after a heading became a
\* child block instead of further runs
C1_Witness ==
    /\ pc = "built"
    /\ tree = <<Blockquote(<<Paragraph(<<Text(tA)>>), Heading(1, <<Text(tA)>>),
                             Paragraph(<<Text(tA)>>)>>)>>
    /\ blocks[1].type = "quote"
    /\ Len(blocks[1].richText) = 1
    /\ Len(blocks[1].children.items) = 2
    /\ blocks[1].children.items[2].type = "paragraph"

StartsWithCheckbox(n) == ChildCount(n) > 0 /\ n.kids[1].kind = "TaskCheckBox"

Converted == pc \in {"built", "panicked", "titled"}

\* C2: a list item, at any depth, whose TextBlock or Paragraph content starts
\* with a TaskCheckbox converts without failing to a ToDo block, never to a
\* bulleted or numbered list item.
C2_TaskItemAlwaysToDo ==
    Converted =>
        \A n \in Nodes :
            /\ n.kind = "ListItem" /\ ChildCount(n) > 0
            /\ n.kids[1].kind \in {"TextBlock", "Paragraph"}
            /\ StartsWithCheckbox(n.kids[1])
            => \A bulletted \in BOOLEAN :
                LET r == handleListItem(n, bulletted)
                IN /\ r.err = ""
                   /\ ~r.val.nil
                   /\ BlockBuild(r.val).err = ""
                   /\ BlockBuild(r.val).val.type = "to_do"

RECURSIVE ConcatItemChildren(_)
\* block results of the remaining children of a list item: a nested List by
\* the list rule, any other child by ToBlocks
ConcatItemChildren(nodes) ==
    IF nodes = <<>> THEN Ok(<<>>)
    ELSE LET h == IF Head(nodes).kind = "List" THEN handleList(Head(nodes))
                  ELSE ToBlocks(Head(nodes))
             t == ConcatItemChildren(Tail(nodes))
         IN IF h.err # "" THEN h ELSE IF t.err # "" THEN t ELSE Ok(h.val \o t.val)

NonTaskItem(n) ==
    \A i \in 1..ChildCount(n) :
        ~(n.kids[i].kind \in {"TextBlock", "Paragraph"} /\ StartsWithCheckbox(n.kids[i]))

\* C3: a non-task list item whose first child is inline-convertible converts
\* to one list-item block: runs from the first child, children the in-order
\* block results of every remaining child, none left out.
C3_ListItemKeepsEveryChild ==
    Converted =>
        \A n \in Nodes :
            /\ n.kind = "ListItem" /\ ChildCount(n) > 0
            /\ NonTaskItem(n)
            /\ IsConvertableToRichText(n.kids[1])
            => \A bulletted \in BOOLEAN :
                LET runs == ExtractRichTexts(n.kids[1])
                    children == ConcatItemChildren(Tail(n.kids))
                IN handleListItem(n, bulletted) =
                    IF runs.err # "" THEN runs
                    ELSE IF children.err # "" THEN children
                    ELSE Ok([nil |-> FALSE, kind |-> "listitem",
                             bulletted |-> bulletted,
                             texts |-> runs.val, children |-> children.val])

IsInline(n) == IsConvertableToRichText(n)

TaskItemExpected(n, siblings) ==
    LET labels == ConcatExtract(siblings)
    IN IF labels.err # "" THEN labels
       ELSE Ok([nil |-> FALSE, kind |-> "todo",
                checked |-> n.kids[1].checked, texts |-> labels.val])

IsTaskList(n) ==
    /\ n.kind = "List" /\ ChildCount(n) > 0
    /\ \A i \in 1..ChildCount(n) :
        /\ ChildCount(n.kids[i]) > 0
        /\ n.kids[i].kids[1].kind = "TextBlock"
        /\ StartsWithCheckbox(n.kids[i].kids[1])

\* C4 as stated: the runs of a ToDo are the concatenated ExtractRichTexts of
\* every sibling that follows the checkbox, none skipped.
C4_TaskLabelsEverySibling ==
    Converted =>
        \A n \in Nodes :
            n.kind = "TextBlock" /\ StartsWithCheckbox(n) =>
                handleTaskItem(n) = TaskItemExpected(n, Tail(n.kids))

\* C4 amended: the ToDo's checked flag is the checkbox's IsChecked; its runs
\* are the concatenated ExtractRichTexts of the following siblings that
\* IsConvertableToRichText accepts, the others (an Image) are skipped; a list
\* of N task items converts to N ToDo blocks in item order.
C4_TaskLabelsInlineSiblings ==
    /\ \A n \in Nodes :
        n.kind = "TextBlock" /\ StartsWithCheckbox(n) =>
            LET expected == TaskItemExpected(n, SelectSeq(Tail(n.kids), IsInline))
                r == handleTaskItem(n)
            IN /\ r = expected
               /\ r.err = "" /\ BlockBuild(r.val).err = "" =>
                    /\ BlockBuild(r.val).val.type = "to_do"
                    /\ BlockBuild(r.val).val.checked = n.kids[1].checked
                    /\ BlockBuild(r.val).val.richText =
                          RichTextsBuild(expected.val.texts).val
    /\ \A n \in Nodes :
        IsTaskList(n) =>
            LET r == handleList(n)
            IN /\ r.err = "" <=>
                    \A i \in 1..ChildCount(n) : handleTaskItem(n.kids[i].kids[1]).err = ""
               /\ r.err = "" =>
                    /\ Len(r.val) = ChildCount(n)
                    /\ \A i \in 1..ChildCount(n) :
                          r.val[i] = handleTaskItem(n.kids[i].kids[1]).val
    /\ pc = "built" /\ Len(tree) = 1 /\ IsTaskList(tree[1]) =>
        /\ Len(blocks) = ChildCount(tree[1])
        /\ \A i \in 1..Len(blocks) :
            /\ blocks[i].type = "to_do"
            /\ blocks[i].checked = tree[1].kids[i].kids[1].kids[1].checked

\* C4 witness: a converted list of an unchecked and a checked task, the
\* second with an image between its two texts
C4_Witness ==
    /\ pc = "built"
    /\ tree = <<TaskList>>
    /\ Len(blocks) = 2
    /\ blocks[1].type = "to_do" /\ ~blocks[1].checked
    /\ blocks[2].type = "to_do" /\ blocks[2].checked
    /\ blocks[2].richText = <<NewTextRichText(tA), NewTextRichText(tB)>>

HeadingTypes == {"heading_1", "heading_2", "heading_3"}

\* C5: a Blockquote whose first child is a Heading converts to a Quote with
\* no runs; the heading block is its first child block and every later child
\* follows as child blocks in source order.
C5_QuoteDoesNotAbsorbHeading ==
    /\ \A n \in Nodes :
        n.kind = "Blockquote" /\ ChildCount(n) > 0 /\ n.kids[1].kind = "Heading" =>
            LET r == ToBlocks(n)
                children == ConcatToBlocks(n.kids)
            IN /\ r.err = children.err
               /\ r.err = "" =>
                    /\ Len(r.val) = 1
                    /\ r.val[1].kind = "blockquote"
                    /\ r.val[1].texts = <<>>
                    /\ r.val[1].children = children.val
                    /\ r.val[1].children[1] = handleHeading(n.kids[1]).val[1]
    /\ pc = "built" /\ Len(tree) = 1 /\ tree[1].kind = "Blockquote"
       /\ tree[1].kids[1].kind = "Heading" =>
            /\ Len(blocks) = 1
            /\ blocks[1].type = "quote"
            /\ blocks[1].richText = <<>>
            /\ ~blocks[1].children.nil
            /\ blocks[1].children.items = BlocksBuild(ConcatToBlocks(tree[1].kids).val).val
            /\ blocks[1].children.items[1].type \in HeadingTypes

\* C5 witness: a converted blockquote of a heading, a paragraph and a list
C5_Witness ==
    /\ pc = "built"
    /\ tree = <<Blockquote(<<Heading(4, <<Text(tB)>>), Paragraph(<<Text(tA)>>),
                             SimpleList>>)>>
    /\ blocks[1].richText = <<>>
    /\ Len(blocks[1].children.items) = 3
    /\ blocks[1].children.items[1].type = "heading_3"
    /\ blocks[1].children.items[2].type = "paragraph"
    /\ blocks[1].children.items[3].type = "bulleted_list_item"

RECURSIVE BlocksWithin(_)
\* a block and every block below it
BlocksWithin(b) ==
    {b} \cup (IF "children" \in DOMAIN b
              THEN UNION {BlocksWithin(b.children.items[i]) :
                            i \in 1..Len(b.children.items)}
              ELSE {})

AllBlocks == UNION {BlocksWithin(blocks[i]) : i \in 1..Len(blocks)}

NestingTypes == {"paragraph", "quote", "bulleted_list_item", "numbered_list_item"}

\* C6: in every produced block, at any depth, of a kind that supports nesting
\* the children list is present (possibly empty), never nil.
C6_ChildrenNeverNil ==
    pc = "built" =>
        \A b \in AllBlocks : b.type \in NestingTypes => ~b.children.nil

RECURSIVE HeaderCells(_)
\* number of cells under the header-row children of a table's children
HeaderCells(kids) ==
    IF kids = <<>> THEN 0
    ELSE (IF Head(kids).kind = "TableHeader" THEN ChildCount(Head(kids)) ELSE 0)
         + HeaderCells(Tail(kids))

\* C7: a Table block's width is the number of header cells and its hasHeader
\* flag is true exactly when the table has a header-row child.
C7_TableWidthAndHeader ==
    pc = "built" /\ Len(tree) = 1 /\ tree[1].kind = "Table" =>
        /\ Len(blocks) = 1
        /\ blocks[1].width = HeaderCells(tree[1].kids)
        /\ blocks[1].hasHeader <=>
              \E i \in 1..ChildCount(tree[1]) : tree[1].kids[i].kind = "TableHeader"

HasHeading1(blks) == \E i \in 1..Len(blks) : blks[i].type = "heading_1"

\* C8: with a level-1 heading among the blocks, the title is the runs of the
\* first one and the returned list is the input without exactly that block,
\* the others (later level-1 headings too) in their order.
C8_FirstHeading1IsTitle ==
    pc = "titled" /\ HasHeading1(input) =>
        LET i == CHOOSE i \in 1..Len(input) :
                    /\ input[i].type = "heading_1"
                    /\ \A j \in 1..(i - 1) : input[j].type # "heading_1"
        IN /\ title = input[i].richText
           /\ Len(outBlocks) = Len(input) - 1
           /\ \A k \in 1..Len(outBlocks) :
                outBlocks[k] = IF k < i THEN input[k] ELSE input[k + 1]

\* C8 witness: a document whose second and third blocks are level-1 headings;
\* the third is kept
C8_Witness ==
    /\ pc = "titled"
    /\ Len(input) = 3
    /\ input[1].type = "paragraph"
    /\ input[2].type = "heading_1" /\ input[3].type = "heading_1"
    /\ input[2] # input[3]
    /\ outBlocks = <<input[1], input[3]>>
    /\ title = input[2].richText

\* C9: without a level-1 heading (the empty list included) the blocks come
\* back unchanged and the title is the single run "Unnamed Document".
C9_DefaultTitle ==
    pc = "titled" /\ ~HasHeading1(input) =>
        /\ outBlocks = input
        /\ title = <<[content |-> UnnamedDocument, annotations |-> {}, link |-> ""]>>

\* C9 witness: the empty document, and a document of other blocks only
C9_Witness ==
    /\ pc = "titled"
    /\ tree = <<>>
    /\ input = <<>> /\ outBlocks = <<>>
    /\ Len(title) = 1

RECURSIVE Leaves(_)
RECURSIVE LeavesOf(_)
\* the leaves below a node, left to right, depth first
Leaves(n) == IF ChildCount(n) = 0 THEN <<n>> ELSE LeavesOf(n.kids)
LeavesOf(nodes) ==
    IF nodes = <<>> THEN <<>> ELSE Leaves(Head(nodes)) \o LeavesOf(Tail(nodes))

InlineOnly(n) == \A d \in Descendants(n) : IsConvertableToRichText(d)

RECURSIVE Flatten(_)
Flatten(ss) == IF ss = <<>> THEN <<>> ELSE Head(ss) \o Flatten(Tail(ss))

Literal(leaf) == IF "text" \in DOMAIN leaf THEN leaf.text ELSE <<>>

HasRichText(leaf) ==
    leaf.kind \in {"Text", "AutoLink", "RawHTML", "HTMLBlock", "CodeBlock",
                   "FencedCodeBlock"}

Contribution(n) ==
    CASE n.kind = "Emphasis" -> IF n.level = 1 THEN {"italic"} ELSE {"bold"}
      [] n.kind = "Strikethrough" -> {"strikethrough"}
      [] n.kind = "CodeSpan" -> {"code"}
      [] OTHER -> {}

RECURSIVE AnnotationsBelow(_, _)
RECURSIVE AnnotationsBelowEach(_, _)
\* for every leaf below n, in document order, the union of anns and of the
\* contributions of the leaf's ancestors from n down
AnnotationsBelow(n, anns) ==
    IF ChildCount(n) = 0 THEN <<anns>>
    ELSE AnnotationsBelowEach(n.kids, anns \cup Contribution(n))
AnnotationsBelowEach(nodes, anns) ==
    IF nodes = <<>> THEN <<>>
    ELSE AnnotationsBelow(Head(nodes), anns) \o AnnotationsBelowEach(Tail(nodes), anns)

AllMapped(n) == \A i \in 1..Len(Leaves(n)) : HasRichText(Leaves(n)[i])

\* the materialized runs of ExtractRichTexts(n)
BuiltRuns(n) == RichTextsBuild(ExtractRichTexts(n).val).val

AnnotationsOf(runs) == [i \in 1..Len(runs) |-> runs[i].annotations]

Decorating == {"Emphasis", "Strikethrough", "CodeSpan", "Link"}

\* n around m around kids, turned into m around n around kids
Swapped(n) ==
    [n.kids[1] EXCEPT !.kids = <<[n EXCEPT !.kids = n.kids[1].kids]>>]

\* C11: the annotation set of every materialized run is the union of what
\* its Emphasis (level 1 italic, level 2 or more bold), Strikethrough and
\* CodeSpan ancestors contribute; it is the same when two nested ancestors
\* change places, and a Link among the ancestors leaves it as it is.
C11_AnnotationsAreUnion ==
    \A n \in Nodes :
        InlineOnly(n) /\ AllMapped(n) =>
            /\ ExtractRichTexts(n).err = ""
            /\ RichTextsBuild(ExtractRichTexts(n).val).err = ""
            /\ AnnotationsOf(BuiltRuns(n)) = AnnotationsBelow(n, {})
            /\ n.kind \in Decorating /\ ChildCount(n) = 1
               /\ n.kids[1].kind \in Decorating /\ ChildCount(n.kids[1]) > 0 =>
                    AnnotationsOf(BuiltRuns(Swapped(n))) = AnnotationsOf(BuiltRuns(n))
            /\ n.kind = "Link" /\ ChildCount(n) = 1 =>
                    AnnotationsOf(BuiltRuns(n)) = AnnotationsOf(BuiltRuns(n.kids[1]))

\* C11 witness: a converted paragraph whose two texts lie below a
\* strikethrough around a level-3 emphasis
C11_Witness ==
    /\ pc = "built"
    /\ \E k \in {<<Text(tA), Text(tB)>>} :
          tree = <<Paragraph(<<Strikethrough(<<Emphasis(3, k)>>)>>)>>
    /\ Len(blocks[1].richText) = 2
    /\ \A i \in 1..2 : blocks[1].richText[i].annotations = {"strikethrough", "bold"}

LinksOf(runs) == [i \in 1..Len(runs) |-> runs[i].link]

\* C12: every materialized run extracted below a Link carries that Link's
\* destination as its one link value; the own URL of an AutoLink leaf and
\* the destination of a Link nested deeper are replaced, so the outermost
\* Link's destination is the final value.
C12_OutermostLinkWins ==
    /\ \A n \in Nodes :
        n.kind = "Link" /\ ChildCount(n) > 0 /\ InlineOnly(n) /\ AllMapped(n) =>
            /\ RichTextsBuild(ExtractRichTexts(n).val).err = ""
            /\ Len(BuiltRuns(n)) = Len(Leaves(n))
            /\ \A i \in 1..Len(BuiltRuns(n)) : BuiltRuns(n)[i].link = n.dest
    /\ pc = "built" /\ Len(tree) = 1 /\ tree[1].kind = "Paragraph"
       /\ ChildCount(tree[1]) = 1 /\ tree[1].kids[1].kind = "Link"
       /\ InlineOnly(tree[1]) =>
            \A i \in 1..Len(blocks[1].richText) :
                blocks[1].richText[i].link = tree[1].kids[1].dest

\* C12 witness: a converted paragraph of a link around another link around
\* an autolink, each with its own URL
C12_Witness ==
    /\ pc = "built"
    /\ tree = <<Paragraph(<<Link("u3", <<Link("u1", <<AutoLink(tA, "u2")>>)>>)>>)>>
    /\ BuiltRuns(AutoLink(tA, "u2"))[1].link = "u2"
    /\ BuiltRuns(tree[1].kids[1].kids[1])[1].link = "u1"
    /\ blocks[1].richText = <<[content |-> tA, annotations |-> {}, link |-> "u3"]>>

HeadingType(level) ==
    IF level = 1 THEN "heading_1" ELSE IF level = 2 THEN "heading_2" ELSE "heading_3"

\* C13: a Heading of level L in 1..6 converts to exactly one heading block
\* without child blocks, of level L for L in 1..3 and of level 3 for L in
\* 4..6; it holds the runs extracted from the heading.
C13_HeadingLevelClamped ==
    /\ \A n \in Nodes :
        n.kind = "Heading" /\ n.level \in 1..6 =>
            /\ (\A i \in 1..ChildCount(n) : InlineOnly(n.kids[i])) /\ AllMapped(n) =>
                    ToBlocks(n).err = "" /\ BlocksBuild(ToBlocks(n).val).err = ""
            /\ ToBlocks(n).err = "" =>
                    /\ Len(ToBlocks(n).val) = 1
                    /\ ToBlocks(n).val[1].kind = "heading"
                    /\ LET b == BlockBuild(ToBlocks(n).val[1])
                       IN b.err = "" =>
                            /\ b.val.type = HeadingType(n.level)
                            /\ DOMAIN b.val = {"type", "richText"}
                            /\ b.val.richText = BuiltRuns(n)
    /\ pc = "built" /\ Len(tree) = 1 /\ tree[1].kind = "Heading" =>
            /\ Len(blocks) = 1
            /\ blocks[1].type = HeadingType(tree[1].level)
            /\ "children" \notin DOMAIN blocks[1]

\* C13 witness: a converted level-6 heading
C13_Witness ==
    /\ pc = "built"
    /\ tree = <<Heading(6, <<Text(tA)>>)>>
    /\ blocks = <<[type |-> "heading_3", richText |-> <<NewTextRichText(tA)>>]>>

Bullets == {"-", "+", "*"}

\* an item that holds one text block or paragraph of texts and nothing else
PlainItem(item) ==
    /\ item.kind = "ListItem" /\ ChildCount(item) = 1
    /\ item.kids[1].kind \in {"TextBlock", "Paragraph"}
    /\ ChildCount(item.kids[1]) >= 1
    /\ \A j \in 1..ChildCount(item.kids[1]) : item.kids[1].kids[j].kind = "Text"

FlatBulleted(n) ==
    /\ n.kind = "List" /\ n.marker \in Bullets /\ ChildCount(n) >= 1
    /\ \A i \in 1..ChildCount(n) : PlainItem(n.kids[i])

\* C14: a bulleted list of N >= 1 items, each with one inline text child and
\* nothing nested, converts to exactly N bulleted list-item blocks in item
\* order, each with the runs of its item and a children list that is
\* present and empty.
C14_FlatBulletedList ==
    /\ \A n \in Nodes :
        FlatBulleted(n) =>
            /\ handleList(n).err = ""
            /\ LET built == BlocksBuild(handleList(n).val)
               IN /\ built.err = ""
                  /\ Len(built.val) = ChildCount(n)
                  /\ \A i \in 1..ChildCount(n) :
                        built.val[i] =
                            [type |-> "bulleted_list_item",
                             richText |-> BuiltRuns(n.kids[i].kids[1]),
                             children |-> [nil |-> FALSE, items |-> <<>>]]
    /\ Len(tree) = 1 /\ FlatBulleted(tree[1]) /\ Converted =>
            /\ pc # "panicked"
            /\ pc = "built" => blocks = BlocksBuild(handleList(tree[1]).val).val

\* C14 witness: a converted bulleted list of two different plain items
C14_Witness ==
    /\ pc = "built"
    /\ tree = <<List("*", <<ListItem(<<TextBlock(<<Text(tA)>>)>>),
                           ListItem(<<TextBlock(<<Text(tB)>>)>>)>>)>>
    /\ Len(blocks) = 2
    /\ blocks[1].type = "bulleted_list_item" /\ blocks[2].type = "bulleted_list_item"
    /\ blocks[1].richText[1].content = tA /\ blocks[2].richText[1].content = tB
    /\ ~blocks[1].children.nil /\ blocks[1].children.items = <<>>

ItemType(marker) ==
    IF marker \in Bullets THEN "bulleted_list_item" ELSE "numbered_list_item"

\* C15: the kind of the list-item blocks of a List depends only on the
\* list's own marker: its non-task items become bulleted list items for '-',
\* '+' and '*', numbered list items for an ordered-list marker; a nested
\* list is classified by its own marker, whatever the enclosing list is.
C15_ItemKindFromOwnMarker ==
    /\ \A n \in Nodes :
        n.kind = "List" /\ handleList(n).err = "" =>
            /\ Len(handleList(n).val) = ChildCount(n)
            /\ \A i \in 1..ChildCount(n) :
                NonTaskItem(n.kids[i]) =>
                    LET b == handleList(n).val[i]
                    IN /\ b.kind = "listitem"
                       /\ b.bulletted <=> n.marker \in Bullets
                       /\ BlockBuild(b).err = "" =>
                            BlockBuild(b).val.type = ItemType(n.marker)
    /\ pc = "built" /\ Len(tree) = 1 /\ tree[1].kind = "List"
       /\ ChildCount(tree[1]) = 1 /\ ChildCount(tree[1].kids[1]) = 2
       /\ NonTaskItem(tree[1].kids[1])
       /\ tree[1].kids[1].kids[1].kind = "TextBlock"
       /\ tree[1].kids[1].kids[2].kind = "List"
       /\ ChildCount(tree[1].kids[1].kids[2]) = 1
       /\ NonTaskItem(tree[1].kids[1].kids[2].kids[1]) =>
            /\ Len(blocks) = 1
            /\ blocks[1].type = ItemType(tree[1].marker)
            /\ Len(blocks[1].children.items) = 1
            /\ blocks[1].children.items[1].type =
                    ItemType(tree[1].kids[1].kids[2].marker)

\* C15 witness: a converted '+' list whose item holds an ordered list, whose
\* item holds a '-' list
C15_Witness ==
    /\ pc = "built"
    /\ Len(tree) = 1 /\ tree[1].kind = "List" /\ tree[1].marker = "+"
    /\ tree[1].kids[1].kids[2].kind = "List" /\ tree[1].kids[1].kids[2].marker = "."
    /\ blocks[1].type = "bulleted_list_item"
    /\ Len(blocks[1].children.items) = 1
    /\ blocks[1].children.items[1].type = "numbered_list_item"
    /\ Len(blocks[1].children.items[1].children.items) >= 1
    /\ blocks[1].children.items[1].children.items[1].type = "bulleted_list_item"

HandledKinds ==
    {"Heading", "CodeBlock", "FencedCodeBlock", "ThematicBreak", "Image", "Table",
     "HTMLBlock", "Paragraph", "Blockquote", "List", "TextBlock"}

Unhandled(n) == ChildCount(n) >= 1 /\ n.kind \notin HandledKinds

\* the first child of n that the loop of a Paragraph or Blockquote hands to
\* ToBlocks and that ToBlocks has no case for, 0 when there is none or when
\* the conversion ends before it
FirstUnhandled(n) ==
    LET k == LeadingInline(n.kids)
        stops == {j \in (k + 1)..ChildCount(n) :
                    /\ Unhandled(n.kids[j])
                    /\ ConcatExtract(SubSeq(n.kids, 1, k)).err = ""
                    /\ ConcatToBlocks(SubSeq(n.kids, k + 1, j - 1)).err = ""}
    IN IF stops = {} THEN 0 ELSE CHOOSE j \in stops : \A i \in stops : j <= i

\* C16: ToBlocks on a node with at least one child whose kind has no case
\* fails with the unhandled-node-type error, and a conversion that reaches
\* such a call delivers no block list, not even a partial one.
C16_UnhandledKindFails ==
    /\ \A n \in Nodes : Unhandled(n) => ToBlocks(n) = Panic(ErrUnhandled)
    /\ \A n \in Nodes :
        n.kind \in {"Paragraph", "Blockquote"} /\ FirstUnhandled(n) > 0 =>
            ToBlocks(n) = Panic(ErrUnhandled)
    /\ Converted /\ Len(tree) = 1 /\ tree[1].kind \in {"Paragraph", "Blockquote"}
       /\ FirstUnhandled(tree[1]) > 0 =>
            pc = "panicked" /\ err = ErrUnhandled /\ blocks = <<>>
    /\ pc = "panicked" => blocks = <<>> /\ outBlocks = <<>> /\ title = <<>>

\* C16 witness: the conversion of a paragraph of a linked image has ended
\* with the unhandled-node-type error
C16_Witness ==
    /\ pc = "panicked"
    /\ err = ErrUnhandled
    /\ tree = <<Paragraph(<<Link("u1", <<Image("img", <<>>)>>)>>)>>
    /\ blocks = <<>>

\* C17: ParseBlocks ends by returning blocks or an error value; no failure
\* raised below it (unhandled kind, empty node, missing rich-text mapping)
\* leaves it as a panic.
C17_NoPanicLeavesParseBlocks ==
    pc # "panicked"

\* kinds whose children are extracted as runs without asking
\* IsConvertableToRichText first
ExtractingKinds == Decorating \cup {"Heading"}

\* C18: an Image met during inline extraction is redirected to block
\* construction: the conversion goes on and emits an image block for it; it
\* neither aborts nor puts a missing (nil) run in the Image's place.
C18_ImageRedirectedToBlock ==
    Converted /\ Len(tree) = 1 =>
        \A p \in Nodes :
            p.kind \in ExtractingKinds =>
                \A i \in 1..ChildCount(p) :
                    p.kids[i].kind = "Image" =>
                        /\ pc # "panicked"
                        /\ ExtractRichTexts(p).err = "" =>
                                \A j \in 1..Len(ExtractRichTexts(p).val) :
                                    ~ExtractRichTexts(p).val[j].nil
                        /\ pc = "built" =>
                                \E b \in AllBlocks :
                                    b.type = "image" /\ b.url = p.kids[i].dest

\* the runs with their content sanitized, those left empty removed
Sanitized(runs) ==
    SelectSeq([i \in 1..Len(runs) |->
                  [runs[i] EXCEPT !.content = sanitizeMarkdownLintComments(@)]],
              LAMBDA r : r.content # <<>>)

\* C19: an HTMLBlock converts to exactly one paragraph block without
\* children whose runs are the node's extracted runs, sanitized, in order,
\* those with empty sanitized content removed; none of its runs is empty.
C19_HTMLBlockParagraph ==
    /\ \A n \in Nodes :
        n.kind = "HTMLBlock" =>
            /\ ToBlocks(n).err = ""
            /\ Len(ToBlocks(n).val) = 1
            /\ LET b == BlocksBuild(ToBlocks(n).val)
               IN /\ b.err = ""
                  /\ Len(b.val) = 1
                  /\ b.val[1].type = "paragraph"
                  /\ b.val[1].children.items = <<>>
                  /\ b.val[1].richText = Sanitized(BuiltRuns(n))
                  /\ \A i \in 1..Len(b.val[1].richText) :
                        b.val[1].richText[i].content # <<>>
    /\ pc = "built" /\ Len(tree) = 1 /\ tree[1].kind = "HTMLBlock" =>
            /\ Len(blocks) = 1
            /\ blocks[1].type = "paragraph"
            /\ blocks[1].richText = Sanitized(BuiltRuns(tree[1]))

\* C19 witness: a converted HTML block that is a markdownlint comment; the
\* paragraph has no run left
C19_Witness ==
    /\ pc = "built"
    /\ tree = <<HTMLBlock(tLint)>>
    /\ BuiltRuns(tree[1]) = <<NewTextRichText(tLint)>>
    /\ Len(blocks) = 1
    /\ blocks[1].type = "paragraph"
    /\ blocks[1].richText = <<>>

\* the line-break tag, in any letter case and with any surrounding blanks
IsLineBreakTag(t) == ToLower(TrimSpace(t)) = <<"<", "b", "r", ">">>

\* C20: html2notion maps the line-break tag to a single newline and returns
\* every other text unchanged, character for character, letter case and
\* surrounding whitespace included.
C20_Html2NotionPassThrough ==
    Converted =>
        \A n \in Nodes :
            n.kind \in {"RawHTML", "HTMLBlock"} =>
                html2notion(n.text) =
                    IF IsLineBreakTag(n.text) THEN <<"\n">> ELSE n.text

\* kinds the first switch of ToBlocks converts whatever their child count
FlatKinds ==
    {"Heading", "CodeBlock", "FencedCodeBlock", "ThematicBreak", "Image", "Table",
     "HTMLBlock"}

EmptyAtBlockLevel(n) == ChildCount(n) = 0 /\ n.kind \notin FlatKinds

\* C21: ToBlocks on a childless node whose kind is none of Heading,
\* CodeBlock, FencedCodeBlock, ThematicBreak, Image, Table, HTMLBlock fails
\* with the empty-node error, also when the kind has no case at all (the
\* failure is the empty-node one, not the unhandled-kind one), and a
\* conversion whose only top-level node is such a node ends with that error.
C21_EmptyNodeBeforeDispatch ==
    /\ \A n \in Nodes : EmptyAtBlockLevel(n) => ToBlocks(n) = Panic(ErrEmptyNode)
    /\ Converted /\ Len(tree) = 1 /\ EmptyAtBlockLevel(tree[1]) =>
            pc = "panicked" /\ err = ErrEmptyNode /\ blocks = <<>>

\* C21 witness: the conversion of a paragraph whose image is followed by a
\* Text leaf (childless, of a kind without a case) has ended with the
\* empty-node error
C21_Witness ==
    /\ pc = "panicked"
    /\ err = ErrEmptyNode
    /\ tree = <<Paragraph(<<Image("img", <<>>), Text(tA)>>)>>
    /\ EmptyAtBlockLevel(tree[1].kids[2]) /\ tree[1].kids[2].kind \notin HandledKinds

RECURSIVE HeaderCellNodes(_)
\* the cells under the header-row children of a table's children, in order
HeaderCellNodes(kids) ==
    IF kids = <<>> THEN <<>>
    ELSE (IF Head(kids).kind = "TableHeader" THEN Head(kids).kids ELSE <<>>)
         \o HeaderCellNodes(Tail(kids))

BodyRowNodes(kids) == SelectSeq(kids, LAMBDA r : r.kind = "TableRow")

\* a table_row block whose cells are the built runs of the given cell nodes
RowOf(cellNodes) ==
    [type |-> "table_row",
     cells |-> [j \in 1..Len(cellNodes) |-> BuiltRuns(cellNodes[j])]]

\* C22: the row list of a built Table block is one header row holding all
\* header cells in order, present exactly when at least one header cell was
\* collected, then one row per body-row child in original order, each with
\* exactly as many cells as the row node has children (no padding or cutting
\* to the table width).
C22_TableRowsInOrder ==
    pc = "built" /\ Len(tree) = 1 /\ tree[1].kind = "Table" =>
        LET hdr == HeaderCellNodes(tree[1].kids)
            body == BodyRowNodes(tree[1].kids)
            rows == blocks[1].children.items
            off == IF Len(hdr) > 0 THEN 1 ELSE 0
        IN /\ Len(blocks) = 1 /\ blocks[1].type = "table"
           /\ ~blocks[1].children.nil
           /\ Len(rows) = off + Len(body)
           /\ Len(hdr) > 0 => rows[1] = RowOf(hdr)
           /\ \A k \in 1..Len(body) :
                /\ rows[off + k] = RowOf(body[k].kids)
                /\ Len(rows[off + k].cells) = ChildCount(body[k])

\* C22 witness: a table whose three-cell body row comes before its two-cell
\* header row has been built: header row first, the body row keeps three cells
C22_Witness ==
    /\ pc = "built"
    /\ tree = <<Table(<<TableRow(<<Cell(tB), Cell(tA), Cell(tA)>>),
                        TableHeader(<<Cell(tA), Cell(tB)>>)>>)>>
    /\ blocks[1].width = 2
    /\ Len(blocks[1].children.items) = 2
    /\ Len(blocks[1].children.items[1].cells) = 2
    /\ Len(blocks[1].children.items[2].cells) = 3

RECURSIVE AppliedUpTo(_, _, _)
\* the run t after the first k decorators of ds acted on it, each once, the
\* first one first
AppliedUpTo(ds, t, k) ==
    IF k = 0 THEN t ELSE ApplyDecorator(ds[k], AppliedUpTo(ds, t, k - 1))

C24_NoDecorateAfterBuild ==
    \A i \in 1..Len(results) : rtBuilders[results[i].b] = results[i].before

-----------------------------------------------------------------------------
(* The calls of one conversion, one call a step: the walk of ParseBlocks     *)
(* through ToBlocks, handleListItem, handleTaskItem, ExtractRichTexts and    *)
(* ToRichText, then the Build of what the walk collected.  A node is named   *)
(* by its path, the child positions from the Document down to it.            *)

RECURSIVE NodeAt(_)
NodeAt(path) ==
    IF Len(path) = 1 THEN tree[path[1]]
    ELSE NodeAt(SubSeq(path, 1, Len(path) - 1)).kids[path[Len(path)]]

Call(fn, path) == [phase |-> "walk", fn |-> fn, path |-> path]

\* a panic raised at this point of the pending calls
Raise(msg) == [phase |-> "panic", fn |-> "panic", msg |-> msg]

HasNil(richTexts) == \E k \in 1..Len(richTexts) : richTexts[k].nil

\* one pass of the loop of ExtractRichTexts: the call on child i, then
\* decorateRichTexts, whose DecorateWith panics on a nil builder
ExtractChildCalls(path, node, i) ==
    <<Call("ExtractRichTexts", Append(path, i))>>
    \o (IF node.kind \in {"Strikethrough", "Emphasis", "CodeSpan", "Link"}
           /\ HasNil(ExtractRichTexts(node.kids[i]).val)
        THEN <<Raise(ErrNilDeref)>> ELSE <<>>)

\* mutant: with children, ExtractRichTexts calls itself on the same node
ExtractCallsSameNode(path, node) ==
    IF ChildCount(node) = 0 THEN <<Call("ToRichText", path)>>
    ELSE <<Call("ExtractRichTexts", path)>>

ExtractCalls(path, node) ==
    IF ChildCount(node) = 0 THEN <<Call("ToRichText", path)>>
    ELSE Flatten([i \in 1..ChildCount(node) |-> ExtractChildCalls(path, node, i)])

\* the loops of handleTable: ExtractRichTexts of every cell of every header
\* row and body row
TableCalls(path, node) ==
    Flatten([i \in 1..ChildCount(node) |->
        IF node.kids[i].kind \in {"TableHeader", "TableRow"}
        THEN [j \in 1..ChildCount(node.kids[i]) |->
                Call("ExtractRichTexts", path \o <<i, j>>)]
        ELSE <<>>])

\* the loop of the Paragraph case and of handleBlockquote: innerBlocks is
\* empty at child i exactly when every child before it was flattened, since
\* a ToBlocks call that returns gives at least one builder
NestedCalls(path, node) ==
    [i \in 1..ChildCount(node) |->
        IF \A j \in 1..i : IsConvertableToRichText(node.kids[j])
        THEN Call("ExtractRichTexts", Append(path, i))
        ELSE Call("ToBlocks", Append(path, i))]

ToBlocksCalls(path, node) ==
    CASE node.kind \in {"Heading", "HTMLBlock"} -> <<Call("ExtractRichTexts", path)>>
      [] node.kind \in {"CodeBlock", "FencedCodeBlock", "ThematicBreak"} -> <<>>
      [] node.kind = "Image" ->
            IF ChildCount(node) > 0
            THEN <<Call("ExtractRichTexts", Append(path, 1))>> ELSE <<>>
      [] node.kind = "Table" -> TableCalls(path, node)
      [] OTHER ->
            IF ChildCount(node) = 0 THEN <<Raise(ErrEmptyNode)>>
            ELSE CASE node.kind \in {"Paragraph", "Blockquote"} ->
                        NestedCalls(path, node)
                   [] node.kind = "List" ->
                        [i \in 1..ChildCount(node) |->
                            Call("handleListItem", Append(path, i))]
                   [] node.kind = "TextBlock" -> <<Call("ExtractRichTexts", path)>>
                   [] OTHER -> <<Raise(ErrUnhandled)>>

RECURSIVE ListItemLoopCalls(_, _, _)
\* the second loop of handleListItem from child i on
ListItemLoopCalls(path, node, i) ==
    IF i > ChildCount(node) THEN <<>>
    ELSE IF i = 1 /\ IsConvertableToRichText(node.kids[1])
    THEN ListItemLoopCalls(path, node, i + 1)
    ELSE IF node.kids[i].kind = "TextBlock"
    THEN IF ChildCount(node.kids[i]) > 0 /\ node.kids[i].kids[1].kind = "TaskCheckBox"
         THEN <<Call("handleTaskItem", Append(path, i))>>
         ELSE ListItemLoopCalls(path, node, i + 1)
    ELSE <<Call("ToBlocks", Append(path, i))>> \o ListItemLoopCalls(path, node, i + 1)

ListItemCalls(path, node) ==
    (IF ChildCount(node) > 0 /\ IsConvertableToRichText(node.kids[1])
     THEN <<Call("ExtractRichTexts", Append(path, 1))>> ELSE <<>>)
    \o ListItemLoopCalls(path, node, 1)

\* the loop of handleTaskItem over the siblings of the checkbox
TaskItemCalls(path, node) ==
    Flatten([i \in 1..ChildCount(node) |->
        IF i > 1 /\ IsConvertableToRichText(node.kids[i])
        THEN <<Call("ExtractRichTexts", Append(path, i))>> ELSE <<>>])

\* the calls a call makes itself, in order
Callees(c) ==
    CASE c.fn = "ToBlocks" -> ToBlocksCalls(c.path, NodeAt(c.path))
      [] c.fn = "ExtractRichTexts" -> ExtractCalls(c.path, NodeAt(c.path))
      [] c.fn = "handleListItem" -> ListItemCalls(c.path, NodeAt(c.path))
      [] c.fn = "handleTaskItem" -> TaskItemCalls(c.path, NodeAt(c.path))
      [] c.fn = "ToRichText" -> <<>>

BuildCall(b) == [phase |-> "build", fn |-> "Build", b |-> b]
BuildRichTextCall(b) == [phase |-> "build", fn |-> "BuildRichText", b |-> b]

\* NtBlockBuilders.Build and NtRichTextBuilders.Build: Build of each in order
BuildCalls(bs) == [i \in 1..Len(bs) |-> BuildCall(bs[i])]
BuildRichTextCalls(rts) == [i \in 1..Len(rts) |-> BuildRichTextCall(rts[i])]

\* the calls the closure of a block builder makes
ClosureCalls(b) ==
    CASE b.kind \in {"heading", "image", "html", "textblock", "todo"} ->
            BuildRichTextCalls(b.texts)
      [] b.kind = "code" ->
            <<[phase |-> "build", fn |-> "ExtractRichTexts", b |-> b.node],
              [phase |-> "build", fn |-> "ToRichText", b |-> b.node],
              BuildRichTextCall(ToRichText(b.node))>>
      [] b.kind = "divider" -> <<>>
      [] b.kind = "table" ->
            Flatten([i \in 1..Len(b.headers) |-> BuildRichTextCalls(b.headers[i])])
            \o Flatten([i \in 1..Len(b.rows) |->
                    Flatten([j \in 1..Len(b.rows[i]) |->
                                BuildRichTextCalls(b.rows[i][j])])])
      [] b.kind \in {"paragraph", "blockquote", "listitem"} ->
            BuildRichTextCalls(b.texts) \o BuildCalls(b.children)

\* Build reads the builder it is called on: a nil one panics
BuildCallees(c) ==
    IF c.fn \in {"ExtractRichTexts", "ToRichText"} THEN <<>>
    ELSE IF c.b.nil THEN <<Raise(ErrNilDeref)>>
    ELSE IF c.fn = "Build" THEN ClosureCalls(c.b)
    ELSE <<>>

CallDocuments ==
    {d : d \in SeqsFromTo(TopLevel, 0, MaxTop)}
    \cup {<<n>> : n \in ParagraphTrees \cup BlockquoteTrees \cup ListTrees
                         \cup TableTrees \cup MiscTrees}

InitCalls ==
    /\ tree \in CallDocuments
    /\ pc = "parsed"
    /\ blocks = <<>>
    /\ input = <<>>
    /\ err = ""
    /\ outBlocks = <<>>
    /\ title = <<>>
    /\ debugSource = FALSE
    /\ rtBuilders = <<>>
    /\ results = <<>>
    /\ schedule = <<>>
    /\ visited = <<>>

\* mdast.Walk: ToBlocks of every top-level node, children skipped
EnterWalk ==
    /\ pc = "parsed"
    /\ pc' = "walking"
    /\ schedule' = [i \in 1..Len(tree) |-> Call("ToBlocks", <<i>>)]
    /\ UNCHANGED <<tree, blocks, err, input, outBlocks, title,
                   debugSource, rtBuilders, results, visited>>

\* the next call of the walk is entered
MakeCall ==
    /\ pc = "walking" /\ schedule # <<>>
    /\ Head(schedule).phase = "walk"
    /\ visited' = Append(visited, Head(schedule))
    /\ schedule' = Callees(Head(schedule)) \o Tail(schedule)
    /\ UNCHANGED <<tree, pc, blocks, err, input, outBlocks, title,
                   debugSource, rtBuilders, results>>

\* a panic unwinds every pending call; ParseBlocks does not recover
RaisePanic ==
    /\ pc \in {"walking", "building"} /\ schedule # <<>>
    /\ Head(schedule).phase = "panic"
    /\ pc' = "panicked"
    /\ err' = Head(schedule).msg
    /\ schedule' = <<>>
    /\ UNCHANGED <<tree, blocks, input, outBlocks, title,
                   debugSource, rtBuilders, results, visited>>

\* the walk is over: blockBuilders.Build(source)
EnterBuild ==
    /\ pc = "walking" /\ schedule = <<>>
    /\ pc' = "building"
    /\ schedule' = BuildCalls(WalkTopLevel(tree).val)
    /\ UNCHANGED <<tree, blocks, err, input, outBlocks, title,
                   debugSource, rtBuilders, results, visited>>

\* the next Build call, or call of a closure, is entered
MakeBuildCall ==
    /\ pc = "building" /\ schedule # <<>>
    /\ Head(schedule).phase = "build"
    /\ visited' = Append(visited, Head(schedule))
    /\ schedule' = BuildCallees(Head(schedule)) \o Tail(schedule)
    /\ UNCHANGED <<tree, pc, blocks, err, input, outBlocks, title,
                   debugSource, rtBuilders, results>>

\* ParseBlocks returns the built blocks
ReturnBlocks ==
    /\ pc = "building" /\ schedule = <<>>
    /\ pc' = "built"
    /\ blocks' = ParseBlocksResult(tree).val
    /\ UNCHANGED <<tree, err, input, outBlocks, title,
                   debugSource, rtBuilders, results, schedule, visited>>

NextCalls ==
    \/ EnterWalk
    \/ MakeCall
    \/ RaisePanic
    \/ EnterBuild
    \/ MakeBuildCall
    \/ ReturnBlocks

\* a running conversion is not suspended: its next call is made
SpecCalls == InitCalls /\ [][NextCalls]_vars /\ WF_vars(NextCalls)

RECURSIVE NodeCount(_)
RECURSIVE NodeCountOf(_)
\* number of nodes of a subtree, of a list of subtrees
NodeCount(n) == 1 + NodeCountOf(n.kids)
NodeCountOf(nodes) ==
    IF nodes = <<>> THEN 0 ELSE NodeCount(Head(nodes)) + NodeCountOf(Tail(nodes))

\* calls of the walk made so far on the node at path
WalkVisits(path) ==
    Cardinality({i \in 1..Len(visited) :
                    visited[i].phase = "walk" /\ visited[i].path = path})

\* calls made so far while building
BuildVisits ==
    Cardinality({i \in 1..Len(visited) : visited[i].phase = "build"})

\* no node is entered more than three times by the walk, and building makes
\* at most four calls per node
VisitsBounded ==
    /\ \A i \in 1..Len(visited) :
          visited[i].phase = "walk" => WalkVisits(visited[i].path) <= 3
    /\ BuildVisits <= 4 * NodeCountOf(tree)

\* the run has ended as the conversion function says it ends
EndsAsComputed ==
    /\ pc = "panicked" => err # "" /\ err = ParseBlocksResult(tree).err
    /\ pc = "built" =>
          ParseBlocksResult(tree).err = "" /\ blocks = ParseBlocksResult(tree).val

PcRank(p) ==
    CASE p = "parsed" -> 0
      [] p = "walking" -> 1
      [] p = "building" -> 2
      [] p \in {"built", "panicked"} -> 3

Ended == pc \in {"built", "panicked"}

\* the guard of some step holds (every step assigns, so it is then enabled)
CanStep ==
    \/ pc = "parsed"
    \/ pc = "walking" /\ schedule = <<>>
    \/ pc = "walking" /\ schedule # <<>> /\ Head(schedule).phase \in {"walk", "panic"}
    \/ pc = "building" /\ schedule = <<>>
    \/ pc = "building" /\ schedule # <<>> /\ Head(schedule).phase \in {"build", "panic"}

\* a step enters one more call or takes the conversion to its next stage
Advances == Len(visited') > Len(visited) \/ PcRank(pc') > PcRank(pc)

\* C25: for every source tree the conversion (top-level walk, ToBlocks,
\* ExtractRichTexts, then the Build of all builders) comes to an end, with
\* the blocks or with a failure: until it has ended it can take a step,
\* every step advances it, and no node is visited more than a fixed number
\* of times, so the steps of a run are bounded by the size of the tree.
C25_ConversionTerminates ==
    /\ [](VisitsBounded /\ EndsAsComputed /\ (Ended \/ CanStep))
    /\ [][Advances]_vars

\* C25 witness: the conversion of a list of at least eight nodes has
\* returned its blocks after more calls than the tree has nodes, some node
\* entered twice by the walk
C25_Witness ==
    /\ pc = "built"
    /\ Len(tree) = 1 /\ tree[1].kind = "List" /\ NodeCountOf(tree) >= 8
    /\ Len(visited) > NodeCountOf(tree)
    /\ \E i \in 1..Len(visited) :
          visited[i].phase = "walk" /\ WalkVisits(visited[i].path) = 2

\* a childless child that IsConvertableToRichText accepts and the first
\* switch of ToBlocks has no case for (a Text leaf, a childless Link)
ChildlessInline(c) == IsConvertableToRichText(c) /\ EmptyAtBlockLevel(c)

\* the first childless inline child of n that comes after a child handed to
\* ToBlocks, 0 when there is none or when the conversion ends before it
FirstLateInline(n) ==
    LET k == LeadingInline(n.kids)
        late == {j \in (k + 2)..ChildCount(n) :
                    /\ ChildlessInline(n.kids[j])
                    /\ ConcatExtract(SubSeq(n.kids, 1, k)).err = ""
                    /\ ConcatToBlocks(SubSeq(n.kids, k + 1, j - 1)).err = ""}
    IN IF late = {} THEN 0 ELSE CHOOSE j \in late : \A i \in late : j <= i

\* C26: ToBlocks on a Paragraph or Blockquote in which a childless inline
\* child (a Text leaf) is reached after a child that was handed to ToBlocks
\* (text after an image) fails with the empty-node error and gives no block;
\* a Paragraph or Blockquote converts only if ToBlocks accepts every child
\* from its first block child on.
C26_InlineAfterBlockFails ==
    /\ \A n \in Nodes :
        n.kind \in {"Paragraph", "Blockquote"} =>
            /\ FirstLateInline(n) > 0 => ToBlocks(n) = Panic(ErrEmptyNode)
            /\ ToBlocks(n).err = "" =>
                  \A j \in (LeadingInline(n.kids) + 1)..ChildCount(n) :
                      ToBlocks(n.kids[j]).err = ""
    /\ Converted /\ Len(tree) = 1 /\ tree[1].kind \in {"Paragraph", "Blockquote"}
       /\ FirstLateInline(tree[1]) > 0 =>
            pc = "panicked" /\ err = ErrEmptyNode /\ blocks = <<>>

\* C26 witness: the conversion of a paragraph with text, an image and text
\* again has ended with the empty-node error and without blocks
C26_Witness ==
    /\ pc = "panicked"
    /\ err = ErrEmptyNode
    /\ tree = <<Paragraph(<<Text(tA), Image("img", <<>>), Text(tB)>>)>>
    /\ FirstLateInline(tree[1]) = 3
    /\ blocks = <<>>

\* C27: for every node IsConvertableToRichText accepts, ExtractRichTexts
\* returns, and every builder it returns is usable (not nil), so that
\* decorating and building its result never dereferences a missing builder,
\* also when the subtree holds a childless node without ToRichText mapping.
C27_ExtractedBuildersUsable ==
    Converted =>
        \A n \in Nodes :
            IsConvertableToRichText(n) =>
                /\ ExtractRichTexts(n).err = ""
                /\ ~HasNil(ExtractRichTexts(n).val)
                /\ BuildExtracted(ExtractRichTexts(n)).err = ""

C27_Witness ==
    /\ pc = "panicked"
    /\ tree = <<Paragraph(<<Emphasis(1, <<Image("img", <<>>)>>)>>)>>
    /\ err = ErrNilDeref

IsTaskTextBlock(n) == n.kind = "TextBlock" /\ StartsWithCheckbox(n)

\* index of the first TextBlock child of n that starts with a checkbox, 0 if none
FirstTaskChild(n) ==
    IF \E i \in 1..ChildCount(n) : IsTaskTextBlock(n.kids[i])
    THEN CHOOSE i \in 1..ChildCount(n) :
            /\ IsTaskTextBlock(n.kids[i])
            /\ \A j \in 1..(i - 1) : ~IsTaskTextBlock(n.kids[j])
    ELSE 0

\* the main content of list item n, as its first loop extracts it
MainContentOf(n) ==
    IF IsConvertableToRichText(n.kids[1]) THEN ExtractRichTexts(n.kids[1])
    ELSE Ok(<<>>)

\* the loop of list item n gets as far as child k: the main content was
\* extracted and every earlier child handed to ToBlocks was converted
ReachesChild(n, k) ==
    /\ MainContentOf(n).err = ""
    /\ \A j \in 1..(k - 1) :
          \/ j = 1 /\ Len(MainContentOf(n).val) > 0
          \/ n.kids[j].kind = "TextBlock"
          \/ ToBlocks(n.kids[j]).err = ""

\* C28: a list item whose loop meets a TextBlock child starting with a
\* TaskCheckbox returns that child's ToDo builder alone: its runs are those of
\* the checkbox's following siblings, the block has no children, and neither
\* the main content, nor the blocks of earlier children, nor any later child
\* of the item is part of it.
C28_TaskItemDropsTheRest ==
    Converted =>
        \A n \in Nodes :
            /\ n.kind = "ListItem"
            /\ FirstTaskChild(n) > 0
            /\ ReachesChild(n, FirstTaskChild(n))
            => \A bulletted \in BOOLEAN :
                LET task == n.kids[FirstTaskChild(n)]
                    labels == TaskLabels(task, 2)
                    r == handleListItem(n, bulletted)
                IN IF labels.err # "" THEN r = labels
                   ELSE /\ r = Ok([nil |-> FALSE, kind |-> "todo",
                                   checked |-> task.kids[1].checked,
                                   texts |-> labels.val])
                        /\ BlockBuild(r.val).err = "" =>
                              /\ BlockBuild(r.val).val.type = "to_do"
                              /\ BlockBuild(r.val).val.children = NilBlocks
                              /\ BlockBuild(r.val).val.richText
                                    = RichTextsBuild(labels.val).val

\* a task TextBlock after main content and a nested list, before a later list:
\* the item becomes one ToDo block with the label alone
C28_Witness ==
    /\ pc = "built"
    /\ tree = <<List("-", <<ListItem(<<TextBlock(<<Text(tA)>>), Unchecked, SimpleList>>)>>)>>
    /\ Len(blocks) = 1
    /\ blocks[1].type = "to_do"
    /\ blocks[1].richText = <<NewTextRichText(tA)>>
    /\ blocks[1].children = NilBlocks

\* C29: PrepareNotionPageProperties leaves the caller's block sequence as it
\* was: after the call the caller's list holds the same blocks at the same
\* positions, also when a level-1 heading was removed from the returned list.
C29_CallerBlocksUnchanged ==
    pc = "titled" => blocks = input

-----------------------------------------------------------------------------
(* Decoration by the child's own kind (flattenRichTexts, builder_block.go) *)

\* the panic messages end with the name of the node's kind, left out here
ErrToRichTextUnsupported == "ToRichText: unsupported markdown node type"
ErrFlattenNotPossible == "flattenedRichTexts is not possible. nestedObjects must be use"

\* ToRichText as flattenRichTexts calls it: a kind without a case panics
ToRichTextOrPanic(node) ==
    IF node.kind \in {"Heading", "Text", "TextBlock", "FencedCodeBlock", "ListItem",
                      "AutoLink", "RawHTML", "HTMLBlock"}
    THEN Ok(<<NewNtRichTextBuilder(node)>>)
    ELSE Panic(ErrToRichTextUnsupported)

\* mutant: every Emphasis child decorates with bold, whatever its level
flattenRichTextsDecorateAlwaysBold(child, deeperRichTexts) ==
    IF deeperRichTexts.err # "" THEN deeperRichTexts
    ELSE CASE child.kind = "Strikethrough" ->
                DecorateAll(deeperRichTexts.val, strikethroughDecorator)
           [] child.kind = "Emphasis" ->
                DecorateAll(deeperRichTexts.val, boldDecorator)
           [] child.kind = "CodeSpan" ->
                DecorateAll(deeperRichTexts.val, codeDecorator)
           [] child.kind = "Link" ->
                DecorateAll(deeperRichTexts.val, linkDecorator(child.dest))
           [] OTHER -> deeperRichTexts

\* the second switch of flattenRichTexts' loop, on the kind of the child
flattenRichTextsDecorate(child, deeperRichTexts) ==
    IF deeperRichTexts.err # "" THEN deeperRichTexts
    ELSE CASE child.kind = "Strikethrough" ->
                DecorateAll(deeperRichTexts.val, strikethroughDecorator)
           [] child.kind = "Emphasis" ->
                DecorateAll(deeperRichTexts.val,
                            IF child.level = 1 THEN italicDecorator
                            ELSE boldDecorator)
           [] child.kind = "CodeSpan" ->
                DecorateAll(deeperRichTexts.val, codeDecorator)
           [] child.kind = "Link" ->
                DecorateAll(deeperRichTexts.val, linkDecorator(child.dest))
           [] OTHER -> deeperRichTexts

RECURSIVE flattenRichTexts(_)
RECURSIVE flattenRichTextsLoop(_, _)

\* one pass of flattenRichTexts' loop, for child i (DebugSource is empty)
flattenRichTextsChild(node, i) ==
    IF node.kids[i].kind \in {"Image", "TaskCheckBox"}
    THEN Panic(ErrFlattenNotPossible)
    ELSE flattenRichTextsDecorate(node.kids[i], flattenRichTexts(node.kids[i]))

\* the loop of flattenRichTexts from child i on
flattenRichTextsLoop(node, i) ==
    IF i > ChildCount(node) THEN Ok(<<>>)
    ELSE CatOk(flattenRichTextsChild(node, i), flattenRichTextsLoop(node, i + 1))

flattenRichTexts(node) ==
    IF ChildCount(node) = 0 THEN ToRichTextOrPanic(node)
    ELSE flattenRichTextsLoop(node, 1)

DecoratingKinds == {"Emphasis", "Strikethrough", "CodeSpan", "Link"}

\* the kinds both ToRichText tables map to the same run
MappedByBoth ==
    {"Heading", "Text", "FencedCodeBlock", "AutoLink", "RawHTML", "HTMLBlock"}

\* every node below n is inline-convertible
InlineBelow(n) == \A d \in Descendants(n) \ {n} : IsConvertableToRichText(d)

\* every childless node of the subtree is mapped by both ToRichText tables
LeavesMappedByBoth(n) ==
    \A d \in Descendants(n) : ChildCount(d) = 0 => d.kind \in MappedByBoth

====
